---- MODULE Spec2Model ----
(***************************************************************************)
(* Bottom-up checkpoint relay of the IPC agent.                            *)
(*                                                                         *)
(* BottomUpManager (src/src/checkpoint/bottomup.rs) drives a child-side    *)
(* and a parent-side BottomUpHandler.  The manager's code is modelled      *)
(* statement by statement; submit_checkpoint is one action per awaited     *)
(* handler primitive, so that overlapping submissions interleave at every  *)
(* await point.  The handler implementations and the scheduler are not     *)
(* part of the sources at hand: they are modelled from the specification   *)
(* as the environment.                                                     *)
(***************************************************************************)
EXTENDS Integers, Sequences, FiniteSets, TLC

(***************************************************************************)
(* Bounds of the model.                                                    *)
(***************************************************************************)
MaxCalls  == 2      \* scheduler tasks (overlapping submissions)
MaxEpoch  == 2      \* epochs 0..MaxEpoch are offered to the manager
MaxPeriod == 2      \* the parent chain reports periods 1..MaxPeriod

Calls      == 1..MaxCalls
Epochs     == 0..MaxEpoch
Periods    == 1..MaxPeriod
Validators == {"v1", "v2"}

ParentSubnet == "/r0"
ChildSubnet  == "/r0/c1"

(***************************************************************************)
(* Values.  Option<T> is a sequence of length 0 or 1; Result<T> is a       *)
(* record; the unit value () is the empty tuple.                           *)
(***************************************************************************)
None    == << >>
Some(x) == << x >>
Unit    == << >>

Ok(v) == [ok |-> TRUE, value |-> v, context |-> << >>, cause |-> "none"]

\* An error as a handler returns it: a cause without any annotation.
HandlerErr(kind) == [ok |-> FALSE, value |-> << >>, context |-> << >>, cause |-> kind]

\* anyhow!("<msg> ... due to: {e:}"): a new error whose text is the
\* annotation followed by the text of the underlying error.
Annotate(note, e) == [e EXCEPT !.context = << note >> \o @]

Note(stage, validator, epoch) ==
    [stage |-> stage, validator |-> validator, epoch |-> epoch]

NoResult == [ok |-> FALSE, value |-> << >>, context |-> << >>, cause |-> "pending"]

(***************************************************************************)
(* NativeBottomUpCheckpoint, restricted to the fields the orchestration    *)
(* reads or writes.  tid is the identity of the value (the call whose      *)
(* checkpoint_template built it); it is not a field of the Rust struct.    *)
(***************************************************************************)
NativeBottomUpCheckpoint(source, epoch, proof, prev_check, tid) ==
    [source |-> source, epoch |-> epoch, proof |-> proof,
     prev_check |-> prev_check, tid |-> tid]

NoTemplate == NativeBottomUpCheckpoint("", 0, None, None, 0)

HashLen == 32

\* 32 zero bytes: `[0u8; 32]`.
ZeroHash == [i \in 1..HashLen |-> 0]


\* Hash of the checkpoint committed on the parent chain at `epoch`.
HashOf(epoch) == [i \in 1..HashLen |-> epoch + 1]

\* prev_hash of the EVM checkpoint (TryFrom<NativeBottomUpCheckpoint>):
\* `let mut prev_hash = [0u8; 32]; if let Some(v) = &value.prev_check
\* { prev_hash.copy_from_slice(v); }`.  copy_from_slice panics unless the
\* source has exactly the length of the destination.
prev_hash_to_evm(prev_check) ==
    IF prev_check = None
    THEN [panic |-> FALSE, bytes |-> ZeroHash]
    ELSE IF Len(prev_check[1]) = HashLen
         THEN [panic |-> FALSE, bytes |-> prev_check[1]]
         ELSE [panic |-> TRUE, bytes |-> << >>]

\* Proof bytes the child chain computes for a template.
ProofOf(t) == << t.epoch + 1 >>

(***************************************************************************)
(* Conversion layer: src/src/manager/evm/conversion.rs.                    *)
(*                                                                         *)
(* Numbers.  Amounts and ABI words do not fit 32-bit integers, so          *)
(* a natural number is the sequence of its bytes, most significant first   *)
(* (leading zero bytes do not change the number), and the arithmetic the   *)
(* conversions perform is done on the bytes.  A string is the sequence of  *)
(* its characters.                                                         *)
(***************************************************************************)
Byte == 0..255

RECURSIVE Strip(_)
\* The number without its leading zero bytes.
Strip(b) == IF b = << >> THEN << >>
            ELSE IF b[1] = 0 THEN Strip(Tail(b)) ELSE b

Zeros(n) == [i \in 1..n |-> 0]

\* The number as exactly n bytes (its low n bytes when it is longer).
Pad(b, n) ==
    IF Len(b) >= n THEN SubSeq(b, Len(b) - n + 1, Len(b))
    ELSE Zeros(n - Len(b)) \o b

\* A small natural number (below 2^24) as bytes.
FromInt(n) == Strip(<< (n \div 65536) % 256, (n \div 256) % 256, n % 256 >>)

RECURSIVE MulAdd(_, _, _)
\* b * m + c, for m and c up to 10^6.
MulAdd(b, m, c) ==
    IF b = << >> THEN FromInt(c)
    ELSE LET t == b[Len(b)] * m + c IN
         Append(MulAdd(SubSeq(b, 1, Len(b) - 1), m, t \div 256), t % 256)

RECURSIVE DivRem(_, _, _)
\* Quotient and remainder of (r * 256^Len(b) + b) by the small divisor d,
\* where r < d.
DivRem(b, d, r) ==
    IF b = << >> THEN [q |-> << >>, r |-> r]
    ELSE LET t    == r * 256 + b[1]
             rest == DivRem(Tail(b), d, t % d) IN
         [q |-> << t \div d >> \o rest.q, r |-> rest.r]

\* 2^k: the byte 2^(k mod 8) followed by k div 8 zero bytes.
Pow2(k) == << 2 ^ (k % 8) >> \o Zeros(k \div 8)

RECURSIVE Pred(_)
\* b - 1, for b > 0.
Pred(b) ==
    IF b[Len(b)] > 0 THEN [b EXCEPT ![Len(b)] = @ - 1]
    ELSE Append(Pred(SubSeq(b, 1, Len(b) - 1)), 255)

\* Numeric comparison b < c.
RECURSIVE LessSameLen(_, _)
LessSameLen(b, c) ==
    IF b = << >> THEN FALSE
    ELSE IF b[1] # c[1] THEN b[1] < c[1]
    ELSE LessSameLen(Tail(b), Tail(c))

Less(b, c) ==
    LET x == Strip(b)
        y == Strip(c) IN
    IF Len(x) # Len(y) THEN Len(x) < Len(y) ELSE LessSameLen(x, y)

DigitChars == << "0", "1", "2", "3", "4", "5", "6", "7", "8", "9" >>

IsDigit(ch) == \E d \in 1..10 : DigitChars[d] = ch

DigitOf(ch) == (CHOOSE d \in 1..10 : DigitChars[d] = ch) - 1

\* The six decimal digits of n < 10^6.
SixDigits(n) ==
    << DigitChars[((n \div 100000) % 10) + 1], DigitChars[((n \div 10000) % 10) + 1],
       DigitChars[((n \div 1000) % 10) + 1],   DigitChars[((n \div 100) % 10) + 1],
       DigitChars[((n \div 10) % 10) + 1],     DigitChars[(n % 10) + 1] >>

RECURSIVE DecimalDigits(_)
\* The decimal digits of b, most significant first, six at a time (the
\* number of digits is a multiple of six, with zeros in front).
DecimalDigits(b) ==
    IF Strip(b) = << >> THEN << >>
    ELSE LET x == DivRem(Strip(b), 1000000, 0) IN
         DecimalDigits(x.q) \o SixDigits(x.r)

RECURSIVE StripZeroDigits(_)
StripZeroDigits(s) ==
    IF Len(s) > 1 /\ s[1] = "0" THEN StripZeroDigits(Tail(s)) ELSE s

\* Display of an unsigned number: its decimal digits, "0" for zero.
ToDecimal(b) ==
    IF Strip(b) = << >> THEN << "0" >> ELSE StripZeroDigits(DecimalDigits(b))

(***************************************************************************)
(* Outcomes of a conversion: a value, an error value (anyhow::Error), or a *)
(* panic of the calling thread.                                            *)
(***************************************************************************)
ConvOk(v)      == [tag |-> "ok", value |-> << v >>, cause |-> "none"]
ConvErr(cause) == [tag |-> "err", value |-> << >>, cause |-> cause]
Panic(cause)   == [tag |-> "panic", value |-> << >>, cause |-> cause]

IsOk(r) == r.tag = "ok"

\* `.map(f).collect()`: the converted elements in order, or the first
\* failure (an Err stops the collection, a panic unwinds it).
Collect(rs) ==
    IF \A i \in 1..Len(rs) : IsOk(rs[i])
    THEN ConvOk([i \in 1..Len(rs) |-> rs[i].value[1]])
    ELSE rs[CHOOSE i \in 1..Len(rs) :
              ~IsOk(rs[i]) /\ \A j \in 1..(i - 1) : IsOk(rs[j])]

\* `Ok(Self { .. })` after the `?`s: the value built from what the steps
\* returned, or the failure of the first step that failed.
MapOk(r, Build(_)) == IF IsOk(r) THEN ConvOk(Build(r.value[1])) ELSE r

(***************************************************************************)
(* BigInt (TokenAmount::atto) is a sign and a magnitude; U256 is 32 bytes. *)
(***************************************************************************)
U256Bytes == 32

BigInt(neg, mag) == [neg |-> neg /\ Strip(mag) # << >>, mag |-> Strip(mag)]

\* BigInt::to_string: "-" for a negative number, then the decimal digits.
BigIntToString(a) == (IF a.neg THEN << "-" >> ELSE << >>) \o ToDecimal(a.mag)

RECURSIVE SmallValue(_, _, _)
\* The number written by the digits s[lo..hi], at most six of them.
SmallValue(s, lo, hi) ==
    IF hi < lo THEN 0 ELSE 10 * SmallValue(s, lo, hi - 1) + DigitOf(s[hi])

RECURSIVE DecimalValue(_, _)
\* The number written by the first n characters of s, decimal digits: the
\* digits are taken in their order, value = value * 10 + digit, six digits
\* in one multiplication.
DecimalValue(s, n) ==
    IF n = 0 THEN << >>
    ELSE LET k == IF n % 6 = 0 THEN 6 ELSE n % 6 IN
         MulAdd(DecimalValue(s, n - k), 10 ^ k, SmallValue(s, n - k + 1, n))

\* BigInt::from_str: an optional sign, then at least one decimal digit.
BigIntFromStr(s) ==
    LET signed == Len(s) >= 1 /\ s[1] \in {"-", "+"}
        digits == IF signed THEN Tail(s) ELSE s IN
    IF digits = << >> THEN ConvErr("Empty")
    ELSE IF \E i \in 1..Len(digits) : ~IsDigit(digits[i]) THEN ConvErr("InvalidDigit")
    ELSE ConvOk(BigInt(signed /\ s[1] = "-", DecimalValue(digits, Len(digits))))

\* U256::from_dec_str: for each character in turn, res = res * 10 + digit;
\* an error at the first character that is not a digit (InvalidCharacter)
\* or that takes the result out of 256 bits (InvalidLength).  The digits
\* in front of the first character that is not one decide which comes
\* first: their number leaves 256 bits exactly when a prefix of them does.
U256FromDecStr(s) ==
    LET bad == { i \in 1..Len(s) : ~IsDigit(s[i]) }
        n   == IF bad = {} THEN Len(s)
               ELSE (CHOOSE i \in bad : \A j \in bad : i <= j) - 1
        res == Strip(DecimalValue(s, n)) IN
    IF Len(res) > U256Bytes THEN ConvErr("InvalidLength")
    ELSE IF bad # {} THEN ConvErr("InvalidCharacter")
    ELSE ConvOk(Pad(res, U256Bytes))

HexChars ==
    << "0", "1", "2", "3", "4", "5", "6", "7", "8", "9",
       "a", "b", "c", "d", "e", "f" >>

IsHexDigit(ch) == \E d \in 1..16 : HexChars[d] = ch

HexOf(ch) == (CHOOSE d \in 1..16 : HexChars[d] = ch) - 1

\* The bytes written by an even number of hexadecimal digits.
HexBytes(s) ==
    [i \in 1..(Len(s) \div 2) |-> 16 * HexOf(s[2 * i - 1]) + HexOf(s[2 * i])]

\* U256::from_str (impl FromStr): the string is read as HEXADECIMAL digits,
\* with an optional "0x" in front; more than 64 digits or a character that
\* is not a hexadecimal digit is an error.
U256FromStr(s) ==
    LET v == IF Len(s) >= 2 /\ s[1] = "0" /\ s[2] = "x"
             THEN SubSeq(s, 3, Len(s)) ELSE s IN
    IF Len(v) > 2 * U256Bytes THEN ConvErr("InvalidStringLength")
    ELSE IF \E i \in 1..Len(v) : ~IsHexDigit(v[i]) THEN ConvErr("InvalidHexCharacter")
    ELSE ConvOk(Pad(HexBytes(IF Len(v) % 2 = 0 THEN v ELSE << "0" >> \o v),
                    U256Bytes))

\* U256 Display: decimal.
U256ToString(u) == ToDecimal(u)

\* U256::as_u128: panics when the number does not fit 128 bits.
AsU128(u) ==
    IF Len(Strip(u)) > 16 THEN Panic("Integer overflow when casting to u128")
    ELSE ConvOk(Pad(u, 16))

\* U256::as_u64: panics when the number does not fit 64 bits.
AsU64(u) ==
    IF Len(Strip(u)) > 8 THEN Panic("Integer overflow when casting to u64")
    ELSE ConvOk(Pad(u, 8))

\* TokenAmount::from_atto of an unsigned number.
TokenAmountFromAtto(n) == BigInt(FALSE, n)

\* Mutation: the amount is parsed as hexadecimal digits.
fil_to_eth_amount_hex(amount) == U256FromStr(BigIntToString(amount))

\* pub fn fil_to_eth_amount(amount: &TokenAmount) -> anyhow::Result<U256>
fil_to_eth_amount(amount) == U256FromDecStr(BigIntToString(amount))

\* pub fn eth_to_fil_amount(amount: &U256) -> anyhow::Result<TokenAmount>
eth_to_fil_amount(amount) == BigIntFromStr(U256ToString(amount))

(***************************************************************************)
(* Addresses.  A native Address is its protocol (0 ID, 1 secp256k1,        *)
(* 2 actor, 3 BLS, 4 delegated), the namespace of a delegated address and  *)
(* the payload bytes (the sub-address of a delegated address, the number   *)
(* of an ID address).  FvmAddress is the struct of the contracts.          *)
(***************************************************************************)
Address(protocol, namespace, payload) ==
    [protocol |-> protocol, namespace |-> Strip(namespace), payload |-> payload]

FvmAddress(addr_type, payload) == [addr_type |-> addr_type, payload |-> payload]

SECP_PUB_LEN == 20          \* payload of a secp256k1 address (a hash)
MAX_SUBADDRESS_LEN == 54    \* longest sub-address of a delegated address

\* One ABI word: a 256-bit number, most significant byte first.
Word(n) == Pad(n, U256Bytes)

\* ethers::abi::encode(&[Token::Tuple(vec![Token::Uint(a), Token::Uint(b),
\* Token::Bytes(raw)])]): the tuple is dynamic, so the encoding is the
\* offset of the tuple (32), then its head (a, b, the offset 96 of the
\* bytes in the tuple) and its tail (the length of raw, raw, zeros up to a
\* whole word).
AbiEncodeTuple(a, b, raw) ==
    Word(FromInt(32)) \o Word(a) \o Word(b) \o Word(FromInt(96))
      \o Word(FromInt(Len(raw))) \o raw
      \o Zeros((32 - (Len(raw) % 32)) % 32)

\* as_usize of the decoder: an error unless the upper 28 bytes are zero.
\* A number of 2^24 or more is beyond every length of the model and is
\* given as 2^24.
AsUsize(word) ==
    IF \E i \in 1..28 : word[i] # 0 THEN ConvErr("InvalidData")
    ELSE IF word[29] # 0 THEN ConvOk(16777216)
    ELSE ConvOk(65536 * word[30] + 256 * word[31] + word[32])

\* ethers::abi::decode(&[ParamType::Tuple(vec![Uint(32), Uint(32), Bytes])],
\* data): the words are read where the offsets say; a Uint is the whole
\* word; the bytes are as many as their own length word says.  A read
\* outside the data is an error.
AbiDecodeTuple(data) ==
    IF Len(data) < 32 THEN ConvErr("InvalidData")
    ELSE
    LET o == AsUsize(SubSeq(data, 1, 32)) IN
    IF ~IsOk(o) \/ o.value[1] > Len(data) THEN ConvErr("InvalidData")
    ELSE
    LET tail == SubSeq(data, o.value[1] + 1, Len(data)) IN
    IF Len(tail) < 96 THEN ConvErr("InvalidData")
    ELSE
    LET d == AsUsize(SubSeq(tail, 65, 96)) IN
    IF ~IsOk(d) \/ d.value[1] + 32 > Len(tail) THEN ConvErr("InvalidData")
    ELSE
    LET n == AsUsize(SubSeq(tail, d.value[1] + 1, d.value[1] + 32)) IN
    IF ~IsOk(n) \/ d.value[1] + 32 + n.value[1] > Len(tail) THEN ConvErr("InvalidData")
    ELSE ConvOk(<< SubSeq(tail, 1, 32), SubSeq(tail, 33, 64),
                   SubSeq(tail, d.value[1] + 33, d.value[1] + 32 + n.value[1]) >>)

\* `len as usize` for a u128 on a 64-bit target: the low 64 bits.
AsUsizeCast(n) == Pad(n, 8)

\* fn bytes_to_fvm_addr(protocol: u8, bytes: &[u8]) -> anyhow::Result<Address>
bytes_to_fvm_addr(protocol, bytes) ==
    CASE protocol = 1 ->
           \* Address::from_bytes(&[[1u8].as_slice(), bytes].concat())?
           IF Len(bytes) = SECP_PUB_LEN THEN ConvOk(Address(1, << >>, bytes))
           ELSE ConvErr("InvalidPayloadLength")
      [] protocol = 4 ->
           LET data == AbiDecodeTuple(bytes) IN
           IF ~IsOk(data) THEN data
           ELSE
           LET raw_bytes == data.value[1][3]
               len       == AsU128(data.value[1][2])
               namespace == AsU64(data.value[1][1]) IN
           IF ~IsOk(len) THEN len
           ELSE IF ~IsOk(namespace) THEN namespace
           ELSE IF AsUsizeCast(len.value[1]) # Pad(FromInt(Len(raw_bytes)), 8)
                THEN ConvErr("bytes len not match")
           \* Address::new_delegated(namespace, &raw_bytes)?
           ELSE IF Len(raw_bytes) > MAX_SUBADDRESS_LEN
                THEN ConvErr("InvalidPayloadLength")
           ELSE ConvOk(Address(4, namespace.value[1], raw_bytes))
      [] OTHER -> ConvErr("address not support now")

\* impl TryFrom<FvmAddress> for Address (both contracts' FvmAddress)
FvmAddressToAddress(value) == bytes_to_fvm_addr(value.addr_type, value.payload)

\* fn addr_payload_to_bytes(payload: Payload) -> ethers::types::Bytes
addr_payload_to_bytes(a) ==
    CASE a.protocol = 1 -> ConvOk(a.payload)
      [] a.protocol = 4 ->
           ConvOk(AbiEncodeTuple(a.namespace, FromInt(Len(a.payload)), a.payload))
      [] OTHER -> Panic("not implemented")

\* impl From<Address> for subnet_contract::FvmAddress and
\* impl TryFrom<Address> for gateway::FvmAddress: the protocol number and
\* the payload bytes; the panic of addr_payload_to_bytes is not caught.
AddressToFvmAddress(a) ==
    MapOk(addr_payload_to_bytes(a),
          LAMBDA payload : FvmAddress(a.protocol, payload))

(***************************************************************************)
(* Subnet identities and child checks.                                     *)
(***************************************************************************)
\* ipc_sdk SubnetID: the root chain and the addresses of the path below it.
SubnetID(root, children) == [root |-> root, children |-> children]

\* The route of a subnet, one 20-byte address per hop: every hop has to be
\* representable as a 20-byte address.
agent_subnet_to_evm_addresses(subnet) ==
    IF \A i \in 1..Len(subnet.children) :
          /\ subnet.children[i].protocol = 4
          /\ Len(subnet.children[i].payload) = 20
    THEN ConvOk([i \in 1..Len(subnet.children) |-> subnet.children[i].payload])
    ELSE ConvErr("hop is not a 20-byte address")

\* impl TryFrom<&SubnetID> for subnet_contract::SubnetID
SubnetIDToEvm(subnet) ==
    MapOk(agent_subnet_to_evm_addresses(subnet),
          LAMBDA route : [root |-> subnet.root, route |-> route])

\* format!("{addr:?}") of bytes: two hexadecimal digits per byte.
HexString(b) ==
    [i \in 1..(2 * Len(b)) |->
       HexChars[(IF i % 2 = 1 THEN b[(i + 1) \div 2] \div 16
                 ELSE b[i \div 2] % 16) + 1]]

\* pub fn ethers_address_to_fil_address: the address is written as "0x" and
\* its digits, read again as an EthAddress, and becomes the delegated
\* address of namespace 10 with these 20 bytes.
ethers_address_to_fil_address(addr) ==
    LET raw_addr == << "0", "x" >> \o HexString(addr)
        eth_addr == HexBytes(SubSeq(raw_addr, 3, Len(raw_addr)))
    IN  ConvOk(Address(4, FromInt(10), eth_addr))

\* impl TryFrom<subnet_contract::SubnetID> for SubnetID
SubnetIDFromEvm(value) ==
    MapOk(Collect([i \in 1..Len(value.route) |->
                     ethers_address_to_fil_address(value.route[i])]),
          LAMBDA children : SubnetID(value.root, children))

\* The closure vec_to_array of TryFrom<NativeChildCheck>: the first 32
\* bytes of a longer hash, else the hash, copied by copy_from_slice into
\* [0u8; 32]; copy_from_slice panics unless the source has 32 bytes.
vec_to_array(v) ==
    LET bytes == IF Len(v) > HashLen THEN SubSeq(v, 1, HashLen) ELSE v IN
    IF Len(bytes) = HashLen THEN ConvOk(bytes)
    ELSE Panic("source slice length does not match destination slice length")

\* impl TryFrom<NativeChildCheck> for subnet_contract::ChildCheck
ChildCheckToEvm(value) ==
    MapOk(Collect(<< Collect([i \in 1..Len(value.checks) |->
                                vec_to_array(value.checks[i])]),
                     SubnetIDToEvm(value.source) >>),
          LAMBDA p : [source |-> p[2], checks |-> p[1]])

\* impl TryFrom<subnet_contract::ChildCheck> for NativeChildCheck
ChildCheckFromEvm(value) ==
    MapOk(SubnetIDFromEvm(value.source),
          LAMBDA source : [source |-> source, checks |-> value.checks])

\* unsigned-varint: seven bits a byte, least significant first, the top
\* bit set on every byte but the last.
RECURSIVE Varint(_)
Varint(n) == IF n < 128 THEN << n >> ELSE << 128 + (n % 128) >> \o Varint(n \div 128)

\* Cid::to_bytes: a CIDv0 is its multihash; a CIDv1 is the version, the
\* codec and the multihash (hash code, digest length, digest).
CidToBytes(cid) ==
    LET multihash == Varint(cid.code) \o Varint(Len(cid.digest)) \o cid.digest IN
    IF cid.version = 0 THEN multihash
    ELSE Varint(cid.version) \o Varint(cid.codec) \o multihash

\* impl TryFrom<ipc_gateway::checkpoint::ChildCheck> for
\* subnet_contract::ChildCheck: the source first, then of every check
\* c.cid().to_bytes()[0..32], which panics on fewer than 32 bytes.
GatewayChildCheckToEvm(value) ==
    MapOk(Collect(<< SubnetIDToEvm(value.source),
                     Collect([i \in 1..Len(value.checks) |->
                                IF Len(CidToBytes(value.checks[i])) < HashLen
                                THEN Panic("range end index 32 out of range for slice")
                                ELSE ConvOk(SubSeq(CidToBytes(value.checks[i]),
                                                   1, HashLen))]) >>),
          LAMBDA p : [source |-> p[1], checks |-> p[2]])

(***************************************************************************)
(* Cross-net messages.  A method number (u64) is its 8 bytes, most         *)
(* significant first; the method of the contracts is 4 bytes.              *)
(***************************************************************************)
\* impl TryFrom<IPCAddress> for subnet_contract::Ipcaddress
IpcaddressToEvm(value) ==
    MapOk(Collect(<< SubnetIDToEvm(value.subnet),
                     AddressToFvmAddress(value.raw_addr) >>),
          LAMBDA p : [subnet_id |-> p[1], raw_address |-> p[2]])

\* impl TryFrom<subnet_contract::Ipcaddress> for IPCAddress
IpcaddressFromEvm(value) ==
    MapOk(Collect(<< FvmAddressToAddress(value.raw_address),
                     SubnetIDFromEvm(value.subnet_id) >>),
          LAMBDA p : [subnet |-> p[2], raw_addr |-> p[1]])

\* Mutation: the cast saturates at u32::MAX.
MethodToBytesSaturating(method) ==
    IF \E i \in 1..4 : method[i] # 0 THEN << 255, 255, 255, 255 >>
    ELSE SubSeq(method, 5, 8)

\* (value.method as u32).to_be_bytes(): the cast keeps the low 32 bits.
MethodToBytes(method) == SubSeq(method, 5, 8)

\* u32::from_be_bytes(value.method) as MethodNum
MethodFromBytes(method) == Zeros(4) \o method

\* impl TryFrom<StorableMsg> for subnet_contract::StorableMsg
StorableMsgToEvm(value) ==
    MapOk(Collect(<< fil_to_eth_amount(value.value),
                     IpcaddressToEvm(value.from),
                     IpcaddressToEvm(value.to) >>),
          LAMBDA p : [from |-> p[2], to |-> p[3], value |-> p[1],
                      nonce |-> value.nonce,
                      method |-> MethodToBytes(value.method),
                      params |-> value.params])

\* impl TryFrom<subnet_contract::StorableMsg> for StorableMsg
StorableMsgFromEvm(value) ==
    MapOk(Collect(<< IpcaddressFromEvm(value.from),
                     IpcaddressFromEvm(value.to),
                     AsU128(value.value) >>),
          LAMBDA p : [from |-> p[1], to |-> p[2],
                      method |-> MethodFromBytes(value.method),
                      params |-> value.params,
                      value |-> TokenAmountFromAtto(p[3]),
                      nonce |-> value.nonce])

\* impl TryFrom<CrossMsg> for subnet_contract::CrossMsg
CrossMsgToEvm(value) ==
    MapOk(StorableMsgToEvm(value.msg),
          LAMBDA message : [wrapped |-> value.wrapped, message |-> message])

\* impl TryFrom<subnet_contract::CrossMsg> for CrossMsg
CrossMsgFromEvm(value) ==
    MapOk(StorableMsgFromEvm(value.message),
          LAMBDA msg : [wrapped |-> value.wrapped, msg |-> msg])

(***************************************************************************)
(* Checkpoints, with all the fields of NativeBottomUpCheckpoint.  An epoch *)
(* (ChainEpoch, i64) is an integer; the epoch of the contracts (u64) is    *)
(* its 8 bytes.  The epochs of the model have at most 24 bits.             *)
(***************************************************************************)
\* value.epoch as u64: the same 64 bits (two's complement).
EpochAsU64(epoch) ==
    IF epoch >= 0 THEN Pad(FromInt(epoch), 8)
    ELSE [i \in 1..8 |-> 255 - Pad(FromInt(-epoch - 1), 8)[i]]

\* value.epoch as ChainEpoch: the same 64 bits read as a signed number.
U64AsChainEpoch(epoch) ==
    IF epoch[1] >= 128
    THEN -(65536 * (255 - epoch[6]) + 256 * (255 - epoch[7]) + (255 - epoch[8])) - 1
    ELSE 65536 * epoch[6] + 256 * epoch[7] + epoch[8]

\* impl TryFrom<NativeBottomUpCheckpoint> for subnet_contract::BottomUpCheckpoint
CheckpointToEvm(value) ==
    LET msgs      == IF value.cross_msgs.cross_msgs = None THEN << >>
                     ELSE value.cross_msgs.cross_msgs[1]
        prev_hash == IF prev_hash_to_evm(value.prev_check).panic
                     THEN Panic("source slice length does not match destination slice length")
                     ELSE ConvOk(prev_hash_to_evm(value.prev_check).bytes)
        proof     == IF value.proof = None THEN << >> ELSE value.proof[1]
    IN  MapOk(Collect(<< Collect([i \in 1..Len(msgs) |-> CrossMsgToEvm(msgs[i])]),
                         Collect([i \in 1..Len(value.children) |->
                                    ChildCheckToEvm(value.children[i])]),
                         prev_hash,
                         SubnetIDToEvm(value.source),
                         U256FromStr(BigIntToString(value.cross_msgs.fee)) >>),
              LAMBDA p : [source |-> p[4],
                          epoch |-> EpochAsU64(value.epoch),
                          fee |-> p[5],
                          cross_msgs |-> p[1],
                          children |-> p[2],
                          prev_hash |-> p[3],
                          proof |-> proof])

\* impl TryFrom<subnet_contract::BottomUpCheckpoint> for NativeBottomUpCheckpoint
CheckpointFromEvm(value) ==
    MapOk(Collect(<< Collect([i \in 1..Len(value.children) |->
                                ChildCheckFromEvm(value.children[i])]),
                     Collect([i \in 1..Len(value.cross_msgs) |->
                                CrossMsgFromEvm(value.cross_msgs[i])]),
                     SubnetIDFromEvm(value.source),
                     AsU128(value.fee) >>),
          LAMBDA p : [source |-> p[3],
                      proof |-> Some(value.proof),
                      epoch |-> U64AsChainEpoch(value.epoch),
                      prev_check |-> Some(value.prev_hash),
                      children |-> p[1],
                      cross_msgs |-> [cross_msgs |-> Some(p[2]),
                                      fee |-> TokenAmountFromAtto(p[4])],
                      sig |-> << >>])

\* Mutation: the proof of the source is carried over.
CheckDataToEvmWithProof(check_data) ==
    LET msgs == IF check_data.cross_msgs.cross_msgs = None THEN << >>
                ELSE check_data.cross_msgs.cross_msgs[1]
    IN  MapOk(Collect(<< Collect([i \in 1..Len(msgs) |-> CrossMsgToEvm(msgs[i])]),
                         Collect([i \in 1..Len(check_data.children) |->
                                    GatewayChildCheckToEvm(check_data.children[i])]),
                         SubnetIDToEvm(check_data.source),
                         fil_to_eth_amount(check_data.cross_msgs.fee) >>),
              LAMBDA p : [source |-> p[3],
                          epoch |-> EpochAsU64(check_data.epoch),
                          fee |-> p[4],
                          cross_msgs |-> p[1],
                          children |-> p[2],
                          prev_hash |-> ZeroHash,
                          proof |-> check_data.proof])

\* impl TryFrom<CheckData> for subnet_contract::BottomUpCheckpoint:
\* cross_msgs.unwrap_or_default() and children are collected, then the
\* struct is built from source, epoch, fee; prev_hash is [0; 32] and proof
\* is Bytes::default().
CheckDataToEvm(check_data) ==
    LET msgs == IF check_data.cross_msgs.cross_msgs = None THEN << >>
                ELSE check_data.cross_msgs.cross_msgs[1]
    IN  MapOk(Collect(<< Collect([i \in 1..Len(msgs) |-> CrossMsgToEvm(msgs[i])]),
                         Collect([i \in 1..Len(check_data.children) |->
                                    GatewayChildCheckToEvm(check_data.children[i])]),
                         SubnetIDToEvm(check_data.source),
                         fil_to_eth_amount(check_data.cross_msgs.fee) >>),
              LAMBDA p : [source |-> p[3],
                          epoch |-> EpochAsU64(check_data.epoch),
                          fee |-> p[4],
                          cross_msgs |-> p[1],
                          children |-> p[2],
                          prev_hash |-> ZeroHash,
                          proof |-> << >>])

VARIABLES
    mgr,          \* the BottomUpManager: status and CheckpointMetadata
    periodLog,    \* answers the parent handler gave to checkpoint_period queries
    chainPeriod,  \* checkpoint period currently registered on the parent chain
    committed,    \* epochs with a committed child checkpoint on the parent chain
    votes,        \* << subnet, epoch, validator >> votes recorded by the parent
    calls,        \* per scheduler task: position in submit_checkpoint, results
    templates,    \* the in-flight template values (locals of submit_checkpoint)
    conv,         \* the conversion under way: its input and its outcomes
    query         \* the last query the manager answered, and how

vars ==
    << mgr, periodLog, chainPeriod, committed, votes, calls, templates, conv, query >>

(***************************************************************************)
(* BottomUpManager: the code of src/src/checkpoint/bottomup.rs.            *)
(***************************************************************************)

\* BottomUpManager::new: `period` is the answer of
\* parent_handler.checkpoint_period(&child.id); `?` fails the construction.
new(parent, child, answer) ==
    IF answer.ok
    THEN [status |-> "ready", parent |-> parent, child |-> child,
          period |-> answer.value[1]]
    ELSE [status |-> "failed", parent |-> parent, child |-> child, period |-> 0]

\* Mutation: checkpoint_period() asks the chain again instead of reading
\* the frozen metadata.
checkpoint_period_live == chainPeriod

\* fn checkpoint_period(&self): self.metadata.period
checkpoint_period == mgr.period

\* Mutation: proof population and previous-hash population swapped.
StepsSwapped ==
    << "checkpoint_template", "populate_prev_hash", "populate_proof", "submit" >>

\* The handler primitives of submit_checkpoint in program order.
Steps ==
    << "checkpoint_template", "populate_proof", "populate_prev_hash", "submit" >>

StepIndex(op) == CHOOSE i \in 1..Len(Steps) : Steps[i] = op

\* self.child_handler / self.parent_handler: the receiver of each primitive.
HandlerOf(op) ==
    IF op \in {"checkpoint_template", "populate_proof", "current_epoch"}
    THEN "child" ELSE "parent"

\* Mutation: the subtraction saturates at zero.
PrevEpochSaturating(epoch) == IF epoch < mgr.period THEN 0 ELSE epoch - mgr.period

\* let prev_epoch = epoch - self.metadata.period;
\* ChainEpoch is i64: the difference of two epochs of the model is far from
\* the ends of its range, and it may be zero or negative.
PrevEpoch(epoch) == epoch - mgr.period

\* Mutation: the local is replaced by one slot shared by all calls.
TemplateSlotShared(c) == 1

\* `let mut template`: every call of submit_checkpoint owns its local.
TemplateSlot(c) == c

\* Mutation: the template of a dropped call stays where it was.
AfterDropKept(t) == t

\* What is left of the local `template` once the future that owns it is
\* dropped: nothing.
AfterDrop(t) == NoTemplate

\* Mutation: failures are ignored, the call goes on with the next step.
ProceedsIgnoringFailure(op, r) == op # Steps[Len(Steps)]

\* Mutation: a failed populate_prev_hash is ignored (`let _ = ...`).
ProceedsIgnoringPrevHash(op, r) ==
    /\ op # Steps[Len(Steps)]
    /\ r.ok \/ op = "populate_prev_hash"

\* `.await?`: after the primitive `op` returned `r`, does the call go on
\* to the next primitive?  (After submit the function returns.)
Proceeds(op, r) == r.ok /\ op # Steps[Len(Steps)]

\* Mutation: the inclusion epoch parent.submit returned is passed on.
StepResultWithEpoch(op, r) ==
    IF op = "submit"
    THEN IF r.ok THEN Ok(r.value)
         ELSE Annotate(Note("cannot submit bottom up checkpoint", None, None), r)
    ELSE r

\* Mutation: the failure of parent.submit is swallowed.
StepResultSwallowed(op, r) == IF op = "submit" THEN Ok(Unit) ELSE r

\* What submit_checkpoint returns when it returns after `op` returned `r`:
\* `?` hands the handler's error on as it is; the error of submit is
\* mapped to "cannot submit bottom up checkpoint due to: {e}"; success
\* is Ok(()).
StepResult(op, r) ==
    IF op = "submit"
    THEN IF r.ok THEN Ok(Unit)
         ELSE Annotate(Note("cannot submit bottom up checkpoint", None, None), r)
    ELSE r

\* Mutation: the vote is looked up under the parent subnet's identity.
HasVotedArgsParent(validator, epoch) ==
    [subnet |-> mgr.parent, epoch |-> epoch, validator |-> validator]

\* has_voted(&self.metadata.child.id, epoch, validator)
HasVotedArgs(validator, epoch) ==
    [subnet |-> mgr.child, epoch |-> epoch, validator |-> validator]

\* Mutation: the negation is dropped.
should_submit_in_epoch_not_negated(hv, validator, epoch) ==
    IF hv.ok THEN Ok(<< hv.value[1] >>)
    ELSE Annotate(Note("cannot check if validator has voted",
                       Some(validator), Some(epoch)), hv)

\* should_submit_in_epoch, given the answer `hv` of the vote query.
should_submit_in_epoch(hv, validator, epoch) ==
    IF hv.ok THEN Ok(<< ~hv.value[1] >>)
    ELSE Annotate(Note("cannot check if validator has voted",
                       Some(validator), Some(epoch)), hv)


(***************************************************************************)
(* A call's trace: one entry per handler primitive it invoked, with the    *)
(* arguments passed and the result returned.                               *)
(***************************************************************************)
Event(op, tmpl, subnet, epoch, validator, result) ==
    [handler |-> HandlerOf(op), op |-> op, tmpl |-> tmpl, subnet |-> subnet,
     epoch |-> epoch, validator |-> validator, result |-> result]

\* The invocation call c makes of primitive `op`, with its arguments as
\* submit_checkpoint passes them; `r` is what the primitive returns.
StepEvent(c, op, r) ==
    LET t == templates[TemplateSlot(c)] IN
    CASE op = "checkpoint_template" ->
           Event(op, NoTemplate, "", Some(calls[c].epoch), "", r)
      [] op = "populate_proof" ->
           Event(op, t, "", None, "", r)
      [] op = "populate_prev_hash" ->
           Event(op, t, mgr.child, Some(PrevEpoch(calls[c].epoch)), "", r)
      [] op = "submit" ->
           Event(op, t, "", None, calls[c].validator, r)

(***************************************************************************)
(* Environment: the two chain handlers (child side, parent side).          *)
(***************************************************************************)

\* checkpoint_template(epoch): a template for `epoch` from child-chain
\* state; proof and previous-hash unset.
ChildCheckpointTemplate(epoch, tid) ==
    NativeBottomUpCheckpoint(ChildSubnet, epoch, None, None, tid)

\* populate_proof(template): attaches the proof, nothing else changes.
ChildPopulateProof(t) == [t EXCEPT !.proof = Some(ProofOf(t))]

\* populate_prev_hash(template, subnet, previous_epoch): the hash of the
\* checkpoint committed for `subnet` at `previous_epoch`, or not found.
ParentPopulatePrevHash(t, subnet, previous_epoch) ==
    IF subnet = ChildSubnet /\ previous_epoch \in committed
    THEN Ok(<< [t EXCEPT !.prev_check = Some(HashOf(previous_epoch))] >>)
    ELSE HandlerErr("NotFoundError")

\* has_voted(subnet, epoch, validator)
ParentHasVoted(subnet, epoch, validator) ==
    << subnet, epoch, validator >> \in votes

\* The parent-chain epoch at which the vote for a checkpoint is included;
\* parent epochs lie above every child epoch of the model.
InclusionEpoch(checkpoint) == MaxEpoch + 1 + checkpoint.epoch

\* submit(validator, checkpoint): one vote per (subnet, epoch, validator).
ParentSubmit(validator, checkpoint, accept) ==
    IF accept /\ << checkpoint.source, checkpoint.epoch, validator >> \notin votes
    THEN Ok(<< InclusionEpoch(checkpoint) >>)
    ELSE HandlerErr("SubmissionRejected")

(***************************************************************************)
(* State machine.                                                          *)
(***************************************************************************)
\* `retry` is not state of the program: it remembers, for the properties,
\* that the call was issued again after the caller abandoned an earlier
\* submit_checkpoint(epoch, validator) of the task.
\* No outcome yet.
NoOutcome == [tag |-> "none", value |-> << >>, cause |-> "none"]

\* A conversion: the kind of its input, the input, the outcome of converting
\* it (fwd) and the outcome of converting that back (back).
Conversion(kind, input) ==
    [kind |-> kind, stage |-> "input", input |-> input,
     fwd |-> NoOutcome, back |-> NoOutcome]

\* The orchestrator converts nothing.
NoConversion == Conversion("none", << >>)

\* No query answered yet.  A query is the operation, the handler
\* invocations it made and the value it returned.
NoQuery == [op |-> "none", invoked |-> << >>, result |-> << >>]

IdleCall ==
    [pc |-> "idle", epoch |-> 0, validator |-> "", guard |-> NoResult,
     result |-> NoResult, trace |-> << >>, retry |-> FALSE]

Init ==
    /\ mgr = [status |-> "unbuilt", parent |-> ParentSubnet,
              child |-> ChildSubnet, period |-> 0]
    /\ periodLog = << >>
    /\ chainPeriod \in Periods
    /\ committed = {0}
    /\ votes = {}
    /\ calls = [c \in Calls |-> IdleCall]
    /\ templates = [c \in Calls |-> NoTemplate]
    /\ conv = NoConversion
    /\ query = NoQuery

\* BottomUpManager::new(parent, child, parent_handler, child_handler)
New(ok) ==
    /\ mgr.status = "unbuilt"
    /\ LET answer == IF ok THEN Ok(<< chainPeriod >>)
                     ELSE HandlerErr("ChainQueryError") IN
       /\ periodLog' = Append(periodLog, [subnet |-> ChildSubnet, answer |-> answer])
       /\ mgr' = new(ParentSubnet, ChildSubnet, answer)
    /\ UNCHANGED << chainPeriod, committed, votes, calls, templates, conv, query >>

\* The parent chain changes the checkpoint period of the child subnet.
ParentPeriodChange(p) ==
    /\ p # chainPeriod
    /\ chainPeriod' = p
    /\ UNCHANGED << mgr, periodLog, committed, votes, calls, templates, conv, query >>

\* The parent chain commits the child's checkpoint of epoch e, for which
\* it holds a vote; checkpoints are committed in the order of their epochs.
ParentCommit(e) ==
    /\ \E v \in Validators : << ChildSubnet, e, v >> \in votes
    /\ \A d \in committed : d < e
    /\ committed' = committed \cup {e}
    /\ UNCHANGED << mgr, periodLog, chainPeriod, votes, calls, templates, conv, query >>

\* Scheduler tasks are interchangeable: they are numbered in the order of
\* the (epoch, validator) they work on, whatever the order they start in.
Rank(e, v) == 2 * e + (IF v = "v1" THEN 0 ELSE 1)

Free(c, e, v) ==
    /\ mgr.status = "ready"
    /\ calls[c].pc = "idle"
    /\ \A d \in Calls :
         calls[d].pc # "idle" =>
           /\ d < c => Rank(calls[d].epoch, calls[d].validator) <= Rank(e, v)
           /\ d > c => Rank(e, v) <= Rank(calls[d].epoch, calls[d].validator)

\* The scheduler asks should_submit_in_epoch(v, e) and, on true, issues
\* submit_checkpoint(e, v).
ShouldSubmitInEpoch(c, e, v, ok) ==
    /\ Free(c, e, v)
    /\ LET q  == HasVotedArgs(v, e)
           hv == IF ok THEN Ok(<< ParentHasVoted(q.subnet, q.epoch, q.validator) >>)
                 ELSE HandlerErr("ChainQueryError")
           g  == should_submit_in_epoch(hv, v, e) IN
       calls' = [calls EXCEPT ![c] =
                   [@ EXCEPT !.epoch = e, !.validator = v, !.guard = g,
                             !.pc = IF g.ok /\ g.value = << TRUE >>
                                    THEN Steps[1] ELSE "skipped"]]
    /\ UNCHANGED << mgr, periodLog, chainPeriod, committed, votes, templates, conv, query >>

\* Call c awaited primitive `op`, which returned `r` and left the template
\* as `t`: the trace grows, and the call goes on or returns.  A template
\* moved into submit, or dropped at the return, is gone.
Resume(c, op, r, t) ==
    /\ calls' = [calls EXCEPT ![c] =
         [@ EXCEPT !.trace = Append(@, StepEvent(c, op, r)),
                   !.pc = IF Proceeds(op, r) THEN Steps[StepIndex(op) + 1] ELSE "done",
                   !.result = IF Proceeds(op, r) THEN @ ELSE StepResult(op, r)]]
    /\ templates' = [templates EXCEPT ![TemplateSlot(c)] =
                       IF Proceeds(op, r) THEN t ELSE NoTemplate]

\* let mut template = self.child_handler.checkpoint_template(epoch).await?;
CheckpointTemplate(c, ok) ==
    /\ calls[c].pc = "checkpoint_template"
    /\ LET t == IF ok THEN ChildCheckpointTemplate(calls[c].epoch, c) ELSE NoTemplate
           r == IF ok THEN Ok(<< t >>) ELSE HandlerErr("ChainQueryError") IN
       Resume(c, "checkpoint_template", r, t)
    /\ UNCHANGED << mgr, periodLog, chainPeriod, committed, votes, conv, query >>

\* self.child_handler.populate_proof(&mut template).await?;
PopulateProof(c, ok) ==
    /\ calls[c].pc = "populate_proof"
    /\ LET cur == templates[TemplateSlot(c)]
           t   == IF ok THEN ChildPopulateProof(cur) ELSE cur
           r   == IF ok THEN Ok(Unit) ELSE HandlerErr("ChainQueryError") IN
       Resume(c, "populate_proof", r, t)
    /\ UNCHANGED << mgr, periodLog, chainPeriod, committed, votes, conv, query >>

\* self.parent_handler.populate_prev_hash(&mut template, &child.id, prev_epoch).await?;
PopulatePrevHash(c, ok) ==
    /\ calls[c].pc = "populate_prev_hash"
    /\ LET cur == templates[TemplateSlot(c)]
           a   == StepEvent(c, "populate_prev_hash", NoResult)
           p   == ParentPopulatePrevHash(cur, a.subnet, a.epoch[1])
           t   == IF ok /\ p.ok THEN p.value[1] ELSE cur
           r   == IF ~ok THEN HandlerErr("ChainQueryError")
                  ELSE IF p.ok THEN Ok(Unit) ELSE p IN
       Resume(c, "populate_prev_hash", r, t)
    /\ UNCHANGED << mgr, periodLog, chainPeriod, committed, votes, conv, query >>

\* self.parent_handler.submit(validator, template).await.map_err(..)?; Ok(())
Submit(c, accept) ==
    /\ calls[c].pc = "submit"
    /\ LET a == StepEvent(c, "submit", NoResult)
           r == ParentSubmit(a.validator, a.tmpl, accept) IN
       /\ Resume(c, "submit", r, NoTemplate)
       /\ votes' = IF r.ok
                   THEN votes \cup {<< a.tmpl.source, a.tmpl.epoch, a.validator >>}
                   ELSE votes
    /\ UNCHANGED << mgr, periodLog, chainPeriod, committed, conv, query >>

\* Call c is inside submit_checkpoint, before one of its primitives.
InStep(c) == \E i \in 1..Len(Steps) : calls[c].pc = Steps[i]

\* The caller drops the future of call c at an await point after one of
\* the first three primitives returned: the locals of submit_checkpoint
\* are freed (the manager is borrowed as &self and keeps nothing).  The
\* caller then issues submit_checkpoint(epoch, validator) again; a future
\* does nothing until it is polled, so the new call stands before its
\* first primitive.
Abandon(c) ==
    /\ InStep(c)
    /\ Len(calls[c].trace) >= 1
    /\ ~calls[c].retry
    /\ calls' = [calls EXCEPT ![c] =
         [IdleCall EXCEPT !.pc = Steps[1],
                          !.epoch = calls[c].epoch,
                          !.validator = calls[c].validator,
                          !.guard = calls[c].guard,
                          !.retry = TRUE]]
    /\ templates' = [templates EXCEPT ![TemplateSlot(c)] = AfterDrop(@)]
    /\ UNCHANGED << mgr, periodLog, chainPeriod, committed, votes, conv, query >>

Next ==
    \/ \E ok \in BOOLEAN : New(ok)
    \/ \E p \in Periods : ParentPeriodChange(p)
    \/ \E e \in Epochs : ParentCommit(e)
    \/ \E c \in Calls, e \in Epochs, v \in Validators, ok \in BOOLEAN :
         ShouldSubmitInEpoch(c, e, v, ok)
    \/ \E c \in Calls, ok \in BOOLEAN : CheckpointTemplate(c, ok)
    \/ \E c \in Calls, ok \in BOOLEAN : PopulateProof(c, ok)
    \/ \E c \in Calls, ok \in BOOLEAN : PopulatePrevHash(c, ok)
    \/ \E c \in Calls, accept \in BOOLEAN : Submit(c, accept)

Spec == Init /\ [][Next]_vars

\* The manager under a caller that may abandon a submission in flight and
\* issue it again, against a parent chain whose period stays as it is.
NextCancel ==
    \/ \E ok \in BOOLEAN : New(ok)
    \/ \E e \in Epochs : ParentCommit(e)
    \/ \E c \in Calls, e \in Epochs, v \in Validators, ok \in BOOLEAN :
         ShouldSubmitInEpoch(c, e, v, ok)
    \/ \E c \in Calls, ok \in BOOLEAN : CheckpointTemplate(c, ok)
    \/ \E c \in Calls, ok \in BOOLEAN : PopulateProof(c, ok)
    \/ \E c \in Calls, ok \in BOOLEAN : PopulatePrevHash(c, ok)
    \/ \E c \in Calls, accept \in BOOLEAN : Submit(c, accept)
    \/ \E c \in Calls : Abandon(c)

SpecCancel == Init /\ [][NextCancel]_vars

\* Epochs the scheduler offers while other agents relay as well: the chain
\* has moved on by one epoch.
RelayedEpochs == 0..(MaxEpoch + 1)

\* The parent chain commits the child's checkpoint of epoch e relayed by
\* the agents of other validators, which were constructed under the period
\* the chain reports now: its predecessor is the checkpoint committed one
\* such period before.
ParentCommitRelayed(e) ==
    /\ mgr.status = "ready"
    /\ \A d \in committed : d < e
    /\ (e - chainPeriod) \in committed
    /\ committed' = committed \cup {e}
    /\ UNCHANGED << mgr, periodLog, chainPeriod, votes, calls, templates, conv, query >>

\* The manager on a parent chain to which other agents relay too.
NextRelayed ==
    \/ \E ok \in BOOLEAN : New(ok)
    \/ \E p \in Periods : ParentPeriodChange(p)
    \/ \E e \in RelayedEpochs : ParentCommit(e)
    \/ \E e \in RelayedEpochs : ParentCommitRelayed(e)
    \/ \E c \in Calls, e \in RelayedEpochs, v \in Validators, ok \in BOOLEAN :
         ShouldSubmitInEpoch(c, e, v, ok)
    \/ \E c \in Calls, ok \in BOOLEAN : CheckpointTemplate(c, ok)
    \/ \E c \in Calls, ok \in BOOLEAN : PopulateProof(c, ok)
    \/ \E c \in Calls, ok \in BOOLEAN : PopulatePrevHash(c, ok)
    \/ \E c \in Calls, accept \in BOOLEAN : Submit(c, accept)

SpecRelayed == Init /\ [][NextRelayed]_vars

(***************************************************************************)
(* Queries of the manager: bottomup.rs, the methods after new.             *)
(***************************************************************************)

\* What a chain handler answers to a query.  The parent chain holds the
\* validator set and the committed checkpoints of the subnets registered
\* on it, which the child subnet is; a chain knows its own head epoch,
\* `head` on the child chain, and the parent's epochs lie above it.
HandlerAnswer(handler, op, subnet, head, ok) ==
    IF ~ok THEN HandlerErr("ChainQueryError")
    ELSE IF op = "current_epoch"
    THEN Ok(<< IF handler = "child" THEN head ELSE MaxEpoch + 1 + head >>)
    ELSE IF handler = "parent" /\ subnet = ChildSubnet
    THEN IF op = "validators" THEN Ok(<< Validators >>)
         ELSE Ok(<< CHOOSE m \in committed : \A d \in committed : d <= m >>)
    ELSE HandlerErr("NotFoundError")

\* fn target_subnet(&self) -> &Subnet { &self.metadata.parent }
target_subnet == mgr.parent

\* fn parent_subnet(&self) -> &Subnet { &self.metadata.parent }
parent_subnet == mgr.parent

\* fn child_subnet(&self) -> &Subnet { &self.metadata.child }
child_subnet == mgr.child

\* Mutation: the validators are asked for under the parent's identity.
validators_of_parent(ok) ==
    Event("validators", NoTemplate, mgr.parent, None, "",
          HandlerAnswer(HandlerOf("validators"), "validators", mgr.parent, 0, ok))

\* self.parent_handler.validators(&self.metadata.child.id).await
validators(ok) ==
    Event("validators", NoTemplate, mgr.child, None, "",
          HandlerAnswer(HandlerOf("validators"), "validators", mgr.child, 0, ok))

\* self.parent_handler.last_executed_epoch(&self.metadata.child.id).await
last_executed_epoch(ok) ==
    Event("last_executed_epoch", NoTemplate, mgr.child, None, "",
          HandlerAnswer(HandlerOf("last_executed_epoch"), "last_executed_epoch",
                        mgr.child, 0, ok))

\* self.child_handler.current_epoch().await
current_epoch(head, ok) ==
    Event("current_epoch", NoTemplate, "", None, "",
          HandlerAnswer(HandlerOf("current_epoch"), "current_epoch", "", head, ok))

GetTargetSubnet ==
    /\ mgr.status = "ready"
    /\ query' = [op |-> "target_subnet", invoked |-> << >>, result |-> target_subnet]
    /\ UNCHANGED << mgr, periodLog, chainPeriod, committed, votes, calls, templates, conv >>

GetParentSubnet ==
    /\ mgr.status = "ready"
    /\ query' = [op |-> "parent_subnet", invoked |-> << >>, result |-> parent_subnet]
    /\ UNCHANGED << mgr, periodLog, chainPeriod, committed, votes, calls, templates, conv >>

GetChildSubnet ==
    /\ mgr.status = "ready"
    /\ query' = [op |-> "child_subnet", invoked |-> << >>, result |-> child_subnet]
    /\ UNCHANGED << mgr, periodLog, chainPeriod, committed, votes, calls, templates, conv >>

QueryValidators(ok) ==
    /\ mgr.status = "ready"
    /\ query' = [op |-> "validators", invoked |-> << validators(ok) >>,
                 result |-> validators(ok).result]
    /\ UNCHANGED << mgr, periodLog, chainPeriod, committed, votes, calls, templates, conv >>

LastExecutedEpoch(ok) ==
    /\ mgr.status = "ready"
    /\ query' = [op |-> "last_executed_epoch",
                 invoked |-> << last_executed_epoch(ok) >>,
                 result |-> last_executed_epoch(ok).result]
    /\ UNCHANGED << mgr, periodLog, chainPeriod, committed, votes, calls, templates, conv >>

CurrentEpoch(head, ok) ==
    /\ mgr.status = "ready"
    /\ query' = [op |-> "current_epoch", invoked |-> << current_epoch(head, ok) >>,
                 result |-> current_epoch(head, ok).result]
    /\ UNCHANGED << mgr, periodLog, chainPeriod, committed, votes, calls, templates, conv >>

\* One scheduler task submits while the manager is queried and the parent
\* chain commits checkpoints, those of other agents included.
NextQuery ==
    \/ \E ok \in BOOLEAN : New(ok)
    \/ \E e \in Epochs : ParentCommit(e)
    \/ \E e \in Epochs : ParentCommitRelayed(e)
    \/ \E e \in Epochs, v \in Validators, ok \in BOOLEAN :
         ShouldSubmitInEpoch(1, e, v, ok)
    \/ \E ok \in BOOLEAN : CheckpointTemplate(1, ok)
    \/ \E ok \in BOOLEAN : PopulateProof(1, ok)
    \/ \E ok \in BOOLEAN : PopulatePrevHash(1, ok)
    \/ \E accept \in BOOLEAN : Submit(1, accept)
    \/ GetTargetSubnet
    \/ GetParentSubnet
    \/ GetChildSubnet
    \/ \E ok \in BOOLEAN : QueryValidators(ok)
    \/ \E ok \in BOOLEAN : LastExecutedEpoch(ok)
    \/ \E head \in Epochs, ok \in BOOLEAN : CurrentEpoch(head, ok)

SpecQuery == Init /\ [][NextQuery]_vars

(***************************************************************************)
(* The conversion layer as a state machine: a value is drawn, converted,   *)
(* and the result converted back.                                          *)
(***************************************************************************)
MaxAmountBits == 257     \* amounts 2^k and 2^k - 1 for k up to this
MaxSmallAmount == 20     \* and the amounts 0..this

\* "100000000000000", the amount of tests::test_amount_conversion.
TestAmount ==
    BigIntFromStr(<< "1", "0", "0", "0", "0", "0", "0", "0", "0", "0", "0",
                     "0", "0", "0", "0" >>).value[1]

TokenAmounts ==
    {BigInt(neg, Pow2(k)) : neg \in BOOLEAN, k \in 0..MaxAmountBits}
      \cup {BigInt(neg, Pred(Pow2(k))) : neg \in BOOLEAN, k \in 0..MaxAmountBits}
      \cup {BigInt(FALSE, FromInt(n)) : n \in 0..MaxSmallAmount}
      \cup {TestAmount}

U256s ==
    {Pad(Pow2(k), U256Bytes) : k \in 0..(8 * U256Bytes - 1)}
      \cup {Pad(Pred(Pow2(k)), U256Bytes) : k \in 0..(8 * U256Bytes)}
      \cup {Pad(FromInt(n), U256Bytes) : n \in 0..MaxSmallAmount}

\* Byte strings of a given length.
Bytes(n, seed) == [i \in 1..n |-> (seed + 7 * i) % 256]

Seeds == {0, 200}

\* 0x1A79385eAd0e873FE0C441C034636D3Edf7014cC of
\* tests::test_fvm_address_encoding, a delegated address of namespace 10.
TestEvmAddr ==
    << 26, 121, 56, 94, 173, 14, 135, 63, 224, 196,
       65, 192, 52, 99, 109, 62, 223, 112, 20, 204 >>

Namespaces == {FromInt(0), FromInt(10), Pred(Pow2(64))}

SubaddressLengths == {0, 1, 20, 31, 32, 33, MAX_SUBADDRESS_LEN}

\* Native addresses of the five protocols.
Addresses ==
    {Address(0, << >>, FromInt(n)) : n \in {0, 1234}}
      \cup {Address(p, << >>, Bytes(SECP_PUB_LEN, s)) : p \in {1, 2}, s \in Seeds}
      \cup {Address(3, << >>, Bytes(48, s)) : s \in Seeds}
      \cup {Address(4, ns, Bytes(n, s)) :
               ns \in Namespaces, n \in SubaddressLengths, s \in Seeds}
      \cup {Address(4, FromInt(10), TestEvmAddr)}

\* The lengths a payload can declare for n raw bytes: n, one more, n plus
\* 2^64, and 2^128.
DeclaredLengths(n) ==
    {FromInt(n), FromInt(n + 1), << 1 >> \o Pad(FromInt(n), 8), Pow2(128)}

\* The payloads a contract can hand over under type 4: encoded tuples of
\* any namespace, declared length and raw bytes, and their prefixes.
DelegatedPayloads ==
    LET Encoded(n) == {AbiEncodeTuple(ns, len, Bytes(n, s)) :
                         ns \in Namespaces \cup {Pow2(64)},
                         len \in DeclaredLengths(n), s \in Seeds}
        encoded == UNION {Encoded(n) :
                            n \in SubaddressLengths \cup {MAX_SUBADDRESS_LEN + 1}}
    IN  encoded \cup {SubSeq(e, 1, k) : e \in encoded, k \in {0, 31, 100, 159}}

FvmAddresses ==
    {FvmAddress(t, Bytes(n, s)) :
       t \in {0, 1, 2, 3, 4, 5, 255}, n \in {0, 19, 20, 21}, s \in Seeds}
      \cup {FvmAddress(4, payload) : payload \in DelegatedPayloads}

\* Subnets of the root chain 314159 with a route of 0..2 hops; the last
\* one has a hop that is not a 20-byte address.
Subnets ==
    {SubnetID(314159, [i \in 1..n |-> Address(4, FromInt(10), Bytes(20, i))]) :
       n \in 0..2}
      \cup {SubnetID(314159, << Address(1, << >>, Bytes(SECP_PUB_LEN, 0)) >>)}

\* Child checks of 0..2 hashes of 0, 31, 32, 33 and 64 bytes.
ChildChecks ==
    LET Hashes == {Bytes(n, s) : n \in {0, 31, HashLen, 33, 64}, s \in Seeds} IN
    {[source |-> subnet, checks |-> checks] :
       subnet \in Subnets,
       checks \in {<< >>} \cup {<< h >> : h \in Hashes}
                    \cup {<< h, g >> : h \in Hashes, g \in Hashes}}

\* Messages between a secp256k1 address of the root chain and an address
\* of any protocol in a subnet, for method numbers around 2^32 and 2^64 and
\* values around 2^128 and 2^256.
StorableMsgs ==
    LET Methods == {Pad(m, 8) : m \in {FromInt(0), FromInt(1), Pred(Pow2(32)),
                                        Pow2(32),
                                        << 1, 2, 3, 4, 5, 6, 7, 8 >>,
                                        << 1, 0, 0, 0, 1 >>, Pred(Pow2(64))}}
        Values  == {BigInt(FALSE, v) : v \in {FromInt(0), FromInt(10),
                                               Pred(Pow2(128)), Pow2(128),
                                               Pow2(256)}}
        Targets == {Address(p, << >>, Bytes(SECP_PUB_LEN, 0)) : p \in {1, 2}}
                     \cup {Address(4, FromInt(10), TestEvmAddr)}
    IN  {[from   |-> [subnet |-> SubnetID(314159, << >>),
                      raw_addr |-> Address(1, << >>, Bytes(SECP_PUB_LEN, 200))],
          to     |-> [subnet |-> subnet, raw_addr |-> target],
          method |-> method, params |-> params, value |-> value,
          nonce  |-> nonce] :
           subnet \in Subnets, target \in Targets, method \in Methods,
           params \in {<< >>, Bytes(3, 0)}, value \in Values,
           nonce \in {Pad(FromInt(0), 8), Pred(Pow2(64))}}

\* Checkpoints: every combination of an absent or present proof, an absent
\* or present previous hash of 0, 31, 32 or 33 bytes, no or one child check,
\* no or one cross message, and a fee around 10, 2^128 and 2^256.
Checkpoints ==
    LET Proofs   == {None, Some(<< >>), Some(Bytes(5, 0))}
        Hashes   == {None} \cup {Some(Bytes(n, 0)) : n \in {0, 31, HashLen, 33}}
        Children == {<< >>}
                      \cup {<< [source |-> SubnetID(314159, << >>),
                                checks |-> << Bytes(n, 200) >>] >> :
                               n \in {31, HashLen, 33}}
        Msg(p)   == [wrapped |-> FALSE,
                     msg |-> [from |-> [subnet |-> SubnetID(314159, << >>),
                                        raw_addr |-> Address(1, << >>, Bytes(SECP_PUB_LEN, 200))],
                              to |-> [subnet |-> SubnetID(314159, << >>),
                                      raw_addr |-> Address(p, << >>, Bytes(SECP_PUB_LEN, 0))],
                              method |-> Pad(FromInt(2), 8), params |-> << >>,
                              value |-> BigInt(FALSE, FromInt(3)),
                              nonce |-> Pad(FromInt(1), 8)]]
        Batches  == {None, Some(<< >>), Some(<< Msg(1) >>), Some(<< Msg(2) >>)}
        Fees     == {BigInt(FALSE, f) : f \in {FromInt(0), FromInt(9), FromInt(10),
                                               Pred(Pow2(128)), Pow2(128),
                                               Pred(Pow2(256)), Pow2(256)}}
    IN  {[source |-> source, proof |-> proof, epoch |-> epoch,
          prev_check |-> prev_check, children |-> children,
          cross_msgs |-> [cross_msgs |-> batch, fee |-> fee],
          sig |-> << >>] :
           source \in Subnets, proof \in Proofs, epoch \in {-1, 0, 20},
           prev_check \in Hashes, children \in Children, batch \in Batches,
           fee \in Fees}

\* Checkpoints of the gateway actor (BottomUpCheckpoint with its CheckData):
\* a proof and a previous checkpoint of any content, child checks whose CIDs
\* are a blake2b-256 CIDv1, a sha2-256 CIDv0 or an identity CIDv1 of 4
\* bytes, cross messages to a secp256k1 or an actor address, and a fee
\* around 10 and 2^256.
GatewayCheckpoints ==
    LET Blake(seed) == [version |-> 1, codec |-> 113, code |-> 45600,
                        digest |-> Bytes(HashLen, seed)]
        Sha      == [version |-> 0, codec |-> 112, code |-> 18,
                     digest |-> Bytes(HashLen, 0)]
        Short    == [version |-> 1, codec |-> 113, code |-> 0,
                     digest |-> Bytes(4, 0)]
        Child(source, checks) == [source |-> source, checks |-> checks]
        Root     == SubnetID(314159, << >>)
        Bad      == SubnetID(314159, << Address(1, << >>, Bytes(SECP_PUB_LEN, 0)) >>)
        Children == {<< >>, << Child(Root, << Blake(200), Sha >>) >>,
                     << Child(Root, << Blake(0), Short >>) >>,
                     << Child(Bad, << Short >>) >>,
                     << Child(Root, << >>), Child(Bad, << Sha >>) >>,
                     << Child(Root, << Blake(0) >>), Child(Root, << Sha >>) >>}
        Msg(p)   == [wrapped |-> FALSE,
                     msg |-> [from |-> [subnet |-> Root,
                                        raw_addr |-> Address(1, << >>, Bytes(SECP_PUB_LEN, 200))],
                              to |-> [subnet |-> Root,
                                      raw_addr |-> Address(p, << >>, Bytes(SECP_PUB_LEN, 0))],
                              method |-> Pad(FromInt(2), 8), params |-> << >>,
                              value |-> BigInt(FALSE, FromInt(3)),
                              nonce |-> Pad(FromInt(1), 8)]]
        Batches  == {None, Some(<< >>), Some(<< Msg(1) >>), Some(<< Msg(2) >>),
                     Some(<< Msg(1), Msg(1) >>), Some(<< Msg(1), Msg(2) >>)}
        Fees     == {BigInt(FALSE, f) : f \in {FromInt(0), FromInt(10),
                                               Pred(Pow2(256)), Pow2(256)}}
    IN  {[data |-> [source |-> source, proof |-> proof, epoch |-> epoch,
                    prev_check |-> prev_check, children |-> children,
                    cross_msgs |-> [cross_msgs |-> batch, fee |-> fee]],
          sig |-> sig] :
           source \in Subnets, proof \in {<< >>, Bytes(5, 0)}, epoch \in {-1, 0, 20},
           prev_check \in {Blake(0), Sha}, children \in Children,
           batch \in Batches, fee \in Fees, sig \in {<< >>, Bytes(2, 0)}}

ConvInputs ==
    {Conversion("TokenAmount", a) : a \in TokenAmounts}
      \cup {Conversion("NativeBottomUpCheckpoint", c) : c \in Checkpoints}
      \cup {Conversion("GatewayBottomUpCheckpoint", c) : c \in GatewayCheckpoints}
      \cup {Conversion("NativeStorableMsg", m) : m \in StorableMsgs}
      \cup {Conversion("NativeChildCheck", c) : c \in ChildChecks}
      \cup {Conversion("U256", u) : u \in U256s}
      \cup {Conversion("Address", a) : a \in Addresses}
      \cup {Conversion("FvmAddress", a) : a \in FvmAddresses}

InitConv ==
    /\ mgr = [status |-> "unbuilt", parent |-> ParentSubnet,
              child |-> ChildSubnet, period |-> 0]
    /\ periodLog = << >>
    /\ chainPeriod = MaxPeriod
    /\ committed = {0}
    /\ votes = {}
    /\ calls = [c \in Calls |-> IdleCall]
    /\ templates = [c \in Calls |-> NoTemplate]
    /\ conv \in ConvInputs
    /\ query = NoQuery

\* The type of the value the next conversion takes: the input, or the
\* value the first conversion produced.
Opposite(type) ==
    CASE type = "TokenAmount" -> "U256"
      [] type = "U256" -> "TokenAmount"
      [] type = "Address" -> "FvmAddress"
      [] type = "FvmAddress" -> "Address"
      [] type = "NativeChildCheck" -> "ChildCheck"
      [] type = "NativeStorableMsg" -> "StorableMsg"
      [] type = "NativeBottomUpCheckpoint" -> "BottomUpCheckpoint"
      [] type = "GatewayBottomUpCheckpoint" -> "BottomUpCheckpoint"

Takes(type) ==
    IF conv.stage = "input" THEN conv.kind = type
    ELSE conv.stage = "fwd" /\ IsOk(conv.fwd) /\ Opposite(conv.kind) = type

Current == IF conv.stage = "input" THEN conv.input ELSE conv.fwd.value[1]

\* The conversion returned (or panicked with) r.
Converted(r) ==
    /\ conv' = IF conv.stage = "input"
               THEN [conv EXCEPT !.stage = "fwd", !.fwd = r]
               ELSE [conv EXCEPT !.stage = "back", !.back = r]
    /\ UNCHANGED << mgr, periodLog, chainPeriod, committed, votes, calls, templates,
                    query >>

FilToEthAmount == Takes("TokenAmount") /\ Converted(fil_to_eth_amount(Current))

EthToFilAmount == Takes("U256") /\ Converted(eth_to_fil_amount(Current))

AddressToFvm == Takes("Address") /\ Converted(AddressToFvmAddress(Current))

FvmToAddress == Takes("FvmAddress") /\ Converted(FvmAddressToAddress(Current))

ChildCheckTryFrom ==
    Takes("NativeChildCheck") /\ Converted(ChildCheckToEvm(Current))

NativeChildCheckTryFrom ==
    Takes("ChildCheck") /\ Converted(ChildCheckFromEvm(Current))

StorableMsgTryFrom ==
    Takes("NativeStorableMsg") /\ Converted(StorableMsgToEvm(Current))

NativeStorableMsgTryFrom ==
    Takes("StorableMsg") /\ Converted(StorableMsgFromEvm(Current))

BottomUpCheckpointTryFrom ==
    Takes("NativeBottomUpCheckpoint") /\ Converted(CheckpointToEvm(Current))

NativeBottomUpCheckpointTryFrom ==
    Takes("BottomUpCheckpoint") /\ Converted(CheckpointFromEvm(Current))

\* impl TryFrom<ipc_gateway::BottomUpCheckpoint>: let check_data =
\* checkpoint.data; BottomUpCheckpoint::try_from(check_data); sig is unused.
GatewayBottomUpCheckpointTryFrom ==
    Takes("GatewayBottomUpCheckpoint") /\ Converted(CheckDataToEvm(Current.data))

NextConv ==
    \/ BottomUpCheckpointTryFrom
    \/ GatewayBottomUpCheckpointTryFrom
    \/ NativeBottomUpCheckpointTryFrom
    \/ StorableMsgTryFrom
    \/ NativeStorableMsgTryFrom
    \/ FilToEthAmount
    \/ EthToFilAmount
    \/ AddressToFvm
    \/ FvmToAddress
    \/ ChildCheckTryFrom
    \/ NativeChildCheckTryFrom

SpecConv == InitConv /\ [][NextConv]_vars


(***************************************************************************)
(* Properties.                                                             *)
(***************************************************************************)
Trace(c) == calls[c].trace

Done(c) == calls[c].pc = "done"

Succeeded(c) == Done(c) /\ calls[c].result.ok

\* The period the parent handler answered at construction.
ResolvedPeriod == periodLog[1].answer.value[1]

\* The primitives in the order the protocol prescribes, with their side.
ProtocolOrder ==
    << [op |-> "checkpoint_template", handler |-> "child"],
       [op |-> "populate_proof",      handler |-> "child"],
       [op |-> "populate_prev_hash",  handler |-> "parent"],
       [op |-> "submit",              handler |-> "parent"] >>

\* C1: every submit_checkpoint(epoch, validator) invokes
\* child.checkpoint_template(epoch), child.populate_proof(template),
\* parent.populate_prev_hash(template, child id, epoch - period) and
\* parent.submit(validator, template) in exactly this order, each one only
\* after the one before it returned success; the position of the call is
\* the primitive after the last one that returned.
C1_StepOrder ==
    \A c \in Calls :
      LET tr == Trace(c) IN
      /\ Len(tr) <= Len(ProtocolOrder)
      /\ \A i \in 1..Len(tr) :
           /\ tr[i].op = ProtocolOrder[i].op
           /\ tr[i].handler = ProtocolOrder[i].handler
           /\ i > 1 => tr[i - 1].result.ok
      /\ Len(tr) >= 1 => tr[1].epoch = Some(calls[c].epoch)
      /\ Len(tr) >= 3 =>
           /\ tr[3].subnet = ChildSubnet
           /\ tr[3].epoch = Some(calls[c].epoch - ResolvedPeriod)
      /\ Len(tr) >= 4 =>
           /\ tr[4].validator = calls[c].validator
           /\ \A i \in 1..3 : tr[i].result.ok
      /\ calls[c].pc \in {"idle", "skipped"} => tr = << >>
      /\ (~Done(c) /\ Len(tr) > 0) =>
           /\ Len(tr) < Len(ProtocolOrder)
           /\ calls[c].pc = ProtocolOrder[Len(tr) + 1].op

\* A call that ran all four primitives and succeeded.
C1_Witness ==
    \E c \in Calls : Succeeded(c) /\ Len(Trace(c)) = 4

\* C2: when a step of submit_checkpoint fails, the call returns that
\* failure, the failed step is the last primitive the call ever invokes
\* (parent.submit is never reached after a failed earlier step), and no
\* primitive is invoked twice by one call.
C2_FirstFailure ==
    \A c \in Calls :
      LET tr == Trace(c) IN
      /\ \A i \in 1..Len(tr) : ~tr[i].result.ok => i = Len(tr)
      /\ \A i, j \in 1..Len(tr) : tr[i].op = tr[j].op => i = j
      /\ (Len(tr) > 0 /\ ~tr[Len(tr)].result.ok) =>
           /\ Done(c)
           /\ ~calls[c].result.ok
           /\ calls[c].result.cause = tr[Len(tr)].result.cause
      /\ (Done(c) /\ ~calls[c].result.ok) =>
           /\ Len(tr) > 0
           /\ ~tr[Len(tr)].result.ok

\* A call whose proof population failed: two primitives invoked, no more.
C2_Witness ==
    \E c \in Calls :
      /\ Done(c)
      /\ Len(Trace(c)) = 2
      /\ Trace(c)[2].op = "populate_proof"
      /\ ~Trace(c)[2].result.ok
      /\ ~calls[c].result.ok

\* C3: hash-chain continuity.  A submit_checkpoint whose epoch - period has
\* no committed checkpoint on the parent fails: step 3, if reached, fails
\* (not found, unless the query itself failed) and parent.submit is not
\* invoked; every checkpoint passed to parent.submit carries the hash of
\* the checkpoint committed at epoch - period, and its EVM encoding has a
\* previous-hash that is not all-zero.
C3_HashChain ==
    \A c \in Calls :
      LET tr   == Trace(c)
          prev == calls[c].epoch - mgr.period IN
      /\ (Len(tr) >= 3 /\ prev \notin committed) =>
           /\ ~tr[3].result.ok
           /\ tr[3].result.cause \in {"NotFoundError", "ChainQueryError"}
           /\ Len(tr) = 3
           /\ Done(c)
           /\ ~calls[c].result.ok
      /\ \A i \in 1..Len(tr) :
           tr[i].op = "submit" =>
             /\ prev \in committed
             /\ tr[i].tmpl.prev_check = Some(HashOf(prev))
             /\ ~prev_hash_to_evm(tr[i].tmpl.prev_check).panic
             /\ prev_hash_to_evm(tr[i].tmpl.prev_check).bytes = HashOf(prev)
             /\ prev_hash_to_evm(tr[i].tmpl.prev_check).bytes # ZeroHash

\* A call that stopped at step 3 with not-found, its predecessor missing.
C3_Witness ==
    \E c \in Calls :
      /\ Done(c)
      /\ Len(Trace(c)) = 3
      /\ Trace(c)[3].result.cause = "NotFoundError"
      /\ (calls[c].epoch - mgr.period) \notin committed
      /\ ~calls[c].result.ok

\* C4 as stated: a successful submit_checkpoint returns the inclusion epoch
\* that parent.submit returned.
C4_ReturnsInclusionEpoch ==
    \A c \in Calls :
      Succeeded(c) => calls[c].result.value = Trace(c)[Len(Trace(c))].result.value

\* C4 amended: a successful submit_checkpoint returns the unit value; it
\* succeeds exactly when parent.submit returned an inclusion epoch, and that
\* epoch is not part of what the caller gets.
C4_ReturnsUnit ==
    \A c \in Calls :
      LET tr == Trace(c) IN
      /\ Succeeded(c) =>
           /\ calls[c].result = Ok(Unit)
           /\ Len(tr) = 4
           /\ tr[4].op = "submit"
           /\ tr[4].result = Ok(<< InclusionEpoch(tr[4].tmpl) >>)
      /\ (Len(tr) = 4 /\ tr[4].result.ok) => Succeeded(c)

\* A successful call, after parent.submit returned an inclusion epoch.
C4_Witness ==
    \E c \in Calls :
      /\ Succeeded(c)
      /\ Trace(c)[4].result.ok
      /\ Len(Trace(c)[4].result.value) = 1


\* A submit_checkpoint(e, v) has returned success.
SucceededFor(e, v) ==
    \E d \in Calls :
      Succeeded(d) /\ calls[d].epoch = e /\ calls[d].validator = v

\* The scheduler asks the guard for task c in this step.
AsksGuard(c) == calls[c].pc = "idle" /\ calls'[c].pc # "idle"

\* C5: duplicate-submission guard.  Once submit_checkpoint(e, v) has
\* returned success against a parent that records the vote of every
\* accepted submit, a later should_submit_in_epoch(v, e) never returns true:
\* it returns false whenever the vote query answers, and the scheduler
\* issues no second submit_checkpoint(e, v).
C5_DuplicateGuard ==
    [][ \A c \in Calls :
          (AsksGuard(c) /\ SucceededFor(calls'[c].epoch, calls'[c].validator)) =>
            /\ calls'[c].guard.value # << TRUE >>
            /\ calls'[c].guard.ok => calls'[c].guard.value = << FALSE >>
            /\ calls'[c].pc = "skipped"
            /\ calls'[c].trace = << >> ]_vars

\* The guard returned false for an (epoch, validator) that was submitted
\* with success before, and the task was skipped.
C5_Witness ==
    \E c \in Calls :
      /\ calls[c].pc = "skipped"
      /\ calls[c].guard = Ok(<< FALSE >>)
      /\ SucceededFor(calls[c].epoch, calls[c].validator)

\* C6: should_submit_in_epoch(validator, epoch) returns the negation of the
\* parent handler's has_voted(child subnet id, epoch, validator); when the
\* vote query fails it returns neither true nor false but an error, which
\* names the validator and the epoch and wraps the cause.
C6_GuardIsNegatedVote ==
    [][ \A c \in Calls :
          AsksGuard(c) =>
            LET g == calls'[c].guard
                e == calls'[c].epoch
                v == calls'[c].validator IN
            /\ g.ok => g.value = << ~ParentHasVoted(ChildSubnet, e, v) >>
            /\ ~g.ok =>
                 /\ g.value = << >>
                 /\ g.cause = "ChainQueryError"
                 /\ Len(g.context) = 1
                 /\ g.context[1].validator = Some(v)
                 /\ g.context[1].epoch = Some(e)
            /\ calls'[c].pc = IF g = Ok(<< TRUE >>)
                              THEN "checkpoint_template" ELSE "skipped" ]_vars

\* One guard answered true and another one failed with an error that names
\* its validator and epoch.
C6_Witness ==
    \E c, d \in Calls :
      /\ calls[c].guard = Ok(<< TRUE >>)
      /\ calls[d].pc = "skipped"
      /\ ~calls[d].guard.ok
      /\ calls[d].guard.context[1].validator = Some(calls[d].validator)
      /\ calls[d].guard.context[1].epoch = Some(calls[d].epoch)

\* C7: the checkpoint period is asked of the parent handler once, at
\* construction, for the child subnet; construction fails if that query
\* fails; checkpoint_period() keeps returning the value answered then,
\* whatever the parent chain reports later, and every submit_checkpoint
\* computes epoch - period with it.
C7_FrozenPeriod ==
    /\ Len(periodLog) <= 1
    /\ (mgr.status = "unbuilt") = (periodLog = << >>)
    /\ Len(periodLog) = 1 =>
         /\ periodLog[1].subnet = ChildSubnet
         /\ (mgr.status = "failed") = ~periodLog[1].answer.ok
         /\ mgr.status = "ready" =>
              /\ checkpoint_period = ResolvedPeriod
              /\ mgr.period = ResolvedPeriod
    /\ \A c \in Calls :
         /\ calls[c].pc # "idle" => mgr.status = "ready"
         /\ \A i \in 1..Len(Trace(c)) :
              Trace(c)[i].op = "populate_prev_hash" =>
                Trace(c)[i].epoch = Some(calls[c].epoch - ResolvedPeriod)

\* The parent chain reports another period than at construction, and a
\* call has asked for the previous hash at epoch - (the period resolved at
\* construction).
C7_Witness ==
    /\ mgr.status = "ready"
    /\ chainPeriod # ResolvedPeriod
    /\ checkpoint_period = ResolvedPeriod
    /\ \E c \in Calls :
         /\ Len(Trace(c)) >= 3
         /\ Trace(c)[3].epoch = Some(calls[c].epoch - ResolvedPeriod)
         /\ Trace(c)[3].epoch # Some(calls[c].epoch - chainPeriod)

\* C8 as stated: whichever step of submit_checkpoint fails, the error the
\* caller gets is annotated with the stage that failed, around the cause.
C8_StageAnnotated ==
    \A c \in Calls :
      (Done(c) /\ ~calls[c].result.ok) =>
        /\ calls[c].result.context # << >>
        /\ calls[c].result.cause = Trace(c)[Len(Trace(c))].result.cause

\* C9: overlapping submit_checkpoint calls keep to their own template: the
\* proof, previous-hash and submit steps of a call receive the template
\* that call obtained from checkpoint_template, as its earlier steps left
\* it; the checkpoint a call submits has the call's epoch; the metadata of
\* the manager stays as constructed.
C9_OwnTemplate ==
    /\ \A c \in Calls :
         LET tr == Trace(c) IN
         /\ \A i \in 2..Len(tr) :
              /\ tr[1].result.ok
              /\ tr[i].tmpl.tid = tr[1].result.value[1].tid
              /\ tr[i].tmpl.tid = c
              /\ tr[i].tmpl.epoch = calls[c].epoch
              /\ tr[i].tmpl.source = ChildSubnet
         /\ Len(tr) >= 2 => tr[2].tmpl = tr[1].result.value[1]
         /\ Len(tr) >= 3 => tr[3].tmpl = ChildPopulateProof(tr[2].tmpl)
         /\ Len(tr) >= 4 =>
              /\ tr[4].tmpl.proof = tr[3].tmpl.proof
              /\ tr[4].tmpl.prev_check # None
    /\ mgr.status = "ready" =>
         mgr = [status |-> "ready", parent |-> ParentSubnet,
                child |-> ChildSubnet, period |-> ResolvedPeriod]

\* Two calls for different (epoch, validator) are in flight together, both
\* about to submit.
C9_Witness ==
    \E c, d \in Calls :
      /\ c # d
      /\ calls[c].pc = "submit"
      /\ calls[d].pc = "submit"
      /\ << calls[c].epoch, calls[c].validator >> #
           << calls[d].epoch, calls[d].validator >>

\* The next step of call c, whatever its handler answers.
CallStep(c) ==
    \E b \in BOOLEAN :
      \/ CheckpointTemplate(c, b)
      \/ PopulateProof(c, b)
      \/ PopulatePrevHash(c, b)
      \/ Submit(c, b)

\* Calls whose submit for (e, v) the parent accepted.
Accepted(e, v) ==
    { c \in Calls :
        /\ Len(Trace(c)) = 4
        /\ Trace(c)[4].result.ok
        /\ Trace(c)[4].tmpl.epoch = e
        /\ Trace(c)[4].validator = v }

\* C10: no local mutual exclusion.  A call in flight can always take its
\* next step, whatever the other calls do; of two overlapping
\* submit_checkpoint(e, v) issued after the guard answered true to both, at
\* most one succeeds against a parent that takes one vote per (subnet,
\* epoch, validator), the other, once it reached parent.submit, returns the
\* parent's rejection as an error, and the parent accepts at most one vote
\* for (e, v).
C10_NoLocalExclusion ==
    /\ \A c \in Calls : InStep(c) => ENABLED CallStep(c)
    /\ \A e \in Epochs, v \in Validators :
         /\ Cardinality(Accepted(e, v)) <= 1
         /\ Cardinality({ c \in Calls : Succeeded(c) /\ calls[c].epoch = e
                                        /\ calls[c].validator = v }) <= 1
    /\ \A c, d \in Calls :
         ( /\ c # d
           /\ calls[c].epoch = calls[d].epoch
           /\ calls[c].validator = calls[d].validator
           /\ Succeeded(d)
           /\ Done(c)
           /\ Len(Trace(c)) = 4 ) =>
             /\ ~calls[c].result.ok
             /\ ~Trace(c)[4].result.ok
             /\ calls[c].result.cause = "SubmissionRejected"
             /\ calls[c].result =
                  Annotate(Note("cannot submit bottom up checkpoint", None, None),
                           Trace(c)[4].result)

\* Two calls for the same (epoch, validator), both let through by the
\* guard, both reached parent.submit: one succeeded, one was rejected.
C10_Witness ==
    \E c, d \in Calls :
      /\ c # d
      /\ calls[c].epoch = calls[d].epoch
      /\ calls[c].validator = calls[d].validator
      /\ calls[c].guard = Ok(<< TRUE >>)
      /\ calls[d].guard = Ok(<< TRUE >>)
      /\ Succeeded(d)
      /\ Done(c)
      /\ Len(Trace(c)) = 4
      /\ calls[c].result.cause = "SubmissionRejected"

\* The step abandons call c and issues it again.
Abandoned(c) == InStep(c) /\ ~calls[c].retry /\ calls'[c].retry

\* submit_checkpoint(e, v) as the scheduler issued it, no primitive awaited.
FreshCall(e, v) ==
    [IdleCall EXCEPT !.pc = Steps[1], !.epoch = e, !.validator = v,
                     !.guard = Ok(<< TRUE >>)]

\* C11: cancellation safety.  A submit_checkpoint can be abandoned after
\* any of its first three primitives returned; abandoning it leaves no
\* template behind, changes neither the manager nor the parent chain (no
\* vote, no committed checkpoint) nor any other call, and the call issued
\* again for the same (epoch, validator) is in the state of a call issued
\* for the first time: it starts from checkpoint_template with no template
\* and works on the template that checkpoint_template builds for it, proof
\* and previous-hash unset.  A call that holds no template is one that is
\* not past its first primitive, and every vote on the parent stems from a
\* call whose submit was accepted.
C11_CancellationSafe ==
    [][ /\ \A c \in Calls :
             /\ (InStep(c) /\ Len(Trace(c)) >= 1 /\ ~calls[c].retry) =>
                  ENABLED Abandon(c)
             /\ Abandoned(c) =>
                  /\ Len(Trace(c)) \in 1..3
                  /\ templates[TemplateSlot(c)] # NoTemplate
                  /\ templates'[TemplateSlot(c)] = NoTemplate
                  /\ [calls'[c] EXCEPT !.retry = FALSE] =
                       FreshCall(calls[c].epoch, calls[c].validator)
                  /\ UNCHANGED << mgr, periodLog, chainPeriod, committed, votes >>
                  /\ \A d \in Calls \ {c} :
                       /\ calls'[d] = calls[d]
                       /\ templates'[TemplateSlot(d)] = templates[TemplateSlot(d)]
             /\ (templates'[TemplateSlot(c)] = NoTemplate) =
                  (calls'[c].pc \in {"idle", "skipped", "done", Steps[1]})
             /\ calls'[c].retry =>
                  LET tr == calls'[c].trace IN
                  /\ calls'[c].pc # "idle"
                  /\ Len(tr) >= 1 =>
                       tr[1] = Event("checkpoint_template", NoTemplate, "",
                                     Some(calls'[c].epoch), "", tr[1].result)
                  /\ Len(tr) >= 2 =>
                       tr[2].tmpl = ChildCheckpointTemplate(calls'[c].epoch, c)
        /\ votes' = { << ChildSubnet, calls'[c].epoch, calls'[c].validator >> :
                        c \in { d \in Calls : Len(calls'[d].trace) = 4
                                               /\ calls'[d].trace[4].result.ok } }
      ]_vars

\* A call that was abandoned and issued again has run all four primitives
\* and succeeded, while another call stands after its third primitive,
\* where it can be abandoned.
C11_Witness ==
    \E c, d \in Calls :
      /\ calls[c].retry
      /\ Succeeded(c)
      /\ Len(Trace(c)) = 4
      /\ calls[d].pc = "submit"
      /\ ~calls[d].retry
      /\ ENABLED Abandon(d)

\* C20: step 3 of submit_checkpoint(epoch, validator) invokes
\* populate_prev_hash on the parent handler, never on the child handler,
\* with the identity of the child subnet and previous_epoch = epoch - period
\* for the period frozen at construction; when epoch < period the value is
\* zero or negative and is passed on as it is (not clamped, not rejected by
\* the orchestrator).
C20_PrevEpochPassedOn ==
    \A c \in Calls :
      LET tr == Trace(c)
          e  == calls[c].epoch IN
      /\ \A i \in 1..Len(tr) :
           /\ tr[i].op = "populate_prev_hash" =>
                /\ i = 3
                /\ tr[i].handler = "parent"
                /\ tr[i].subnet = mgr.child
                /\ tr[i].subnet = ChildSubnet
                /\ tr[i].epoch = Some(e - checkpoint_period)
                /\ e < checkpoint_period =>
                     /\ tr[i].epoch[1] = e - checkpoint_period
                     /\ tr[i].epoch[1] < 0
                /\ e = checkpoint_period => tr[i].epoch = Some(0)
           /\ tr[i].handler = "child" =>
                tr[i].op \in {"checkpoint_template", "populate_proof"}
      /\ Len(tr) >= 3 => tr[3].op = "populate_prev_hash"

\* A call for epoch 0 under a period of at least 1 reached step 3: the
\* parent handler was asked for the negative epoch 0 - period and answered
\* not found.
C20_Witness ==
    \E c \in Calls :
      /\ Len(Trace(c)) = 3
      /\ calls[c].epoch < checkpoint_period
      /\ Trace(c)[3].handler = "parent"
      /\ Trace(c)[3].epoch[1] < 0
      /\ Trace(c)[3].epoch[1] = calls[c].epoch - ResolvedPeriod
      /\ Trace(c)[3].result.cause = "NotFoundError"

\* C19 as stated: every checkpoint the orchestrator passes to parent.submit
\* has an epoch that is a multiple of the checkpoint period, with a
\* previous-hash that refers to epoch - period; a submit_checkpoint for an
\* epoch that is not a multiple of the period never reaches parent.submit.
C19_AlignedEpochs ==
    \A c \in Calls :
      LET tr == Trace(c) IN
      /\ \A i \in 1..Len(tr) :
           tr[i].op = "submit" =>
             /\ tr[i].tmpl.epoch % checkpoint_period = 0
             /\ tr[i].tmpl.prev_check = Some(HashOf(tr[i].tmpl.epoch - checkpoint_period))
      /\ (calls[c].pc # "idle" /\ calls[c].epoch % checkpoint_period # 0) =>
           /\ calls[c].pc # "submit"
           /\ Len(tr) < 4

\* 2^256
TwoTo256 == Pow2(8 * U256Bytes)

\* C13: amount conversion.  For every amount a with 0 <= a < 2^256,
\* fil_to_eth_amount(a) succeeds with the 256-bit integer of the same
\* numeric value, and eth_to_fil_amount of it is a again; for every 256-bit
\* integer u, eth_to_fil_amount(u) is the amount of the same value and
\* fil_to_eth_amount of it is u again; for an amount of 2^256 or more
\* fil_to_eth_amount returns an error value (no wrapped or truncated
\* number, no panic).
C13_AmountConversion ==
    /\ (conv.kind = "TokenAmount" /\ conv.stage # "input" /\ ~conv.input.neg) =>
         LET a == conv.input IN
         IF Less(a.mag, TwoTo256)
         THEN /\ IsOk(conv.fwd)
              /\ Len(conv.fwd.value[1]) = U256Bytes
              /\ Strip(conv.fwd.value[1]) = a.mag
              /\ conv.stage = "back" => conv.back = ConvOk(a)
         ELSE /\ conv.fwd.tag = "err"
              /\ conv.fwd.value = << >>
    /\ (conv.kind = "U256" /\ conv.stage # "input") =>
         LET u == conv.input IN
         /\ IsOk(conv.fwd)
         /\ conv.fwd.value[1] = BigInt(FALSE, u)
         /\ conv.stage = "back" => conv.back = ConvOk(u)

\* The largest 256-bit amount, 2^256 - 1, was converted and converted back.
C13_Witness ==
    /\ conv.kind = "TokenAmount"
    /\ conv.stage = "back"
    /\ conv.input = BigInt(FALSE, Pred(TwoTo256))
    /\ Strip(conv.fwd.value[1]) = Strip(Pred(TwoTo256))
    /\ conv.back = ConvOk(conv.input)

\* C15: address conversion.  A secp256k1 address converts to its raw
\* payload bytes; a delegated address converts to the ABI tuple (namespace,
\* sub-address length, raw sub-address bytes); an address of any other kind
\* (ID, actor, BLS) makes the conversion return an error value, not a panic
\* and not a payload; in the reverse direction an address type other than
\* 1 or 4 returns an error.
C15_AddressConversion ==
    /\ (conv.kind = "Address" /\ conv.stage # "input") =>
         LET a == conv.input IN
         CASE a.protocol = 1 ->
                conv.fwd = ConvOk(FvmAddress(1, a.payload))
           [] a.protocol = 4 ->
                conv.fwd = ConvOk(FvmAddress(4,
                             AbiEncodeTuple(a.namespace, FromInt(Len(a.payload)),
                                            a.payload)))
           [] OTHER ->
                /\ conv.fwd.tag = "err"
                /\ conv.fwd.value = << >>
    /\ (conv.kind = "FvmAddress" /\ conv.stage # "input"
          /\ conv.input.addr_type \notin {1, 4}) =>
         /\ conv.fwd.tag = "err"
         /\ conv.fwd.value = << >>

\* C16: address round trip.  For every delegated and every secp256k1
\* address, converting to FvmAddress and back returns the identical
\* address; the delegated payload holds the namespace, the length and the
\* raw bytes in that order; and decoding a delegated payload fails when
\* its declared length differs from the number of its raw bytes.
C16_AddressRoundTrip ==
    /\ (conv.kind = "Address" /\ conv.input.protocol \in {1, 4}
          /\ conv.stage # "input") =>
         LET a == conv.input IN
         /\ IsOk(conv.fwd)
         /\ a.protocol = 4 =>
              LET tuple == AbiDecodeTuple(conv.fwd.value[1].payload) IN
              /\ IsOk(tuple)
              /\ tuple.value[1] = << Word(a.namespace),
                                     Word(FromInt(Len(a.payload))), a.payload >>
         /\ conv.stage = "back" => conv.back = ConvOk(a)
    /\ (conv.kind = "FvmAddress" /\ conv.input.addr_type = 4
          /\ conv.stage # "input") =>
         LET tuple == AbiDecodeTuple(conv.input.payload) IN
         (IsOk(tuple) /\ Strip(tuple.value[1][2]) # FromInt(Len(tuple.value[1][3])))
           => ~IsOk(conv.fwd)

\* C14: child-check hash conversion.  For every native check hash of any
\* length the conversion produces exactly 32 bytes: the first 32 bytes of a
\* longer hash, the hash itself when it has 32 bytes, and a 32-byte value
\* (no abort) when it is shorter; the order and the number of the checks
\* are preserved.
C14_ChildCheckHashes ==
    (conv.kind = "NativeChildCheck" /\ conv.stage # "input"
       /\ IsOk(SubnetIDToEvm(conv.input.source))) =>
      LET from == conv.input.checks IN
      /\ IsOk(conv.fwd)
      /\ Len(conv.fwd.value[1].checks) = Len(from)
      /\ \A i \in 1..Len(from) :
           LET to == conv.fwd.value[1].checks[i] IN
           /\ Len(to) = HashLen
           /\ Len(from[i]) >= HashLen => to = SubSeq(from[i], 1, HashLen)

\* The other fields of a message are convertible both ways: its addresses
\* are secp256k1 or delegated, its subnets have 20-byte hops and its value
\* is below 2^128.
OtherFieldsConvert(m) ==
    /\ m.from.raw_addr.protocol \in {1, 4}
    /\ m.to.raw_addr.protocol \in {1, 4}
    /\ IsOk(SubnetIDToEvm(m.from.subnet))
    /\ IsOk(SubnetIDToEvm(m.to.subnet))
    /\ ~m.value.neg
    /\ Less(m.value.mag, Pow2(128))

\* A message of method 2^32 + 1 came back with method 1.
C17_Witness ==
    /\ conv.kind = "NativeStorableMsg"
    /\ conv.stage = "back"
    /\ OtherFieldsConvert(conv.input)
    /\ conv.input.method = Pad(<< 1, 0, 0, 0, 1 >>, 8)
    /\ conv.fwd.value[1].method = << 0, 0, 0, 1 >>
    /\ IsOk(conv.back)
    /\ conv.back.value[1].method = Pad(FromInt(1), 8)

\* C17: method identifier conversion.  Converting a native StorableMsg
\* keeps the low 32 bits of the 64-bit method number as 4 big-endian
\* bytes; converting back yields the method modulo 2^32; the round trip is
\* the identity exactly for the method numbers below 2^32, and it does not
\* fail for larger ones.
C17_MethodLow32Bits ==
    (conv.kind = "NativeStorableMsg" /\ conv.stage # "input"
       /\ OtherFieldsConvert(conv.input)) =>
      LET method == conv.input.method IN
      /\ IsOk(conv.fwd)
      \* method = high * 2^32 + low, and the 4 bytes are low
      /\ Len(conv.fwd.value[1].method) = 4
      /\ \E high \in {SubSeq(method, 1, 4)} :
           Strip(high \o conv.fwd.value[1].method) = Strip(method)
      /\ conv.stage = "back" =>
           /\ IsOk(conv.back)
           /\ Len(conv.back.value[1].method) = 8
           /\ SubSeq(conv.back.value[1].method, 1, 4) = Zeros(4)
           /\ SubSeq(conv.back.value[1].method, 5, 8) = conv.fwd.value[1].method
           /\ (conv.back.value[1].method = method) <=> Less(method, Pow2(32))
           /\ Less(method, Pow2(32)) => conv.back = ConvOk(conv.input)

\* C18: optional fields of the native-to-contract checkpoint conversion.
\* For a checkpoint whose other fields convert: an absent proof becomes
\* empty bytes and an absent previous hash the 32 zero bytes; a present
\* proof is carried over byte for byte and a present previous hash of 32
\* bytes is carried over; a present previous hash that has not 32 bytes is
\* reported as a conversion error (no default, no abort).
C18_OptionalFields ==
    (conv.kind = "NativeBottomUpCheckpoint" /\ conv.stage # "input"
       /\ IsOk(CheckpointToEvm([conv.input EXCEPT !.prev_check = None,
                                                   !.proof = None]))) =>
      LET value == conv.input IN
      IF value.prev_check # None /\ Len(value.prev_check[1]) # HashLen
      THEN /\ conv.fwd.tag = "err"
           /\ conv.fwd.value = << >>
      ELSE /\ IsOk(conv.fwd)
           /\ conv.fwd.value[1].proof =
                (IF value.proof = None THEN << >> ELSE value.proof[1])
           /\ conv.fwd.value[1].prev_hash =
                (IF value.prev_check = None THEN ZeroHash ELSE value.prev_check[1])

\* The documented domain of the checkpoint round trip: a fee in [0, 2^256),
\* message addresses that are secp256k1 or delegated, child-check hashes
\* of at most 32 bytes, and subnets whose hops are 20-byte addresses.
InDomain(value) ==
    LET msgs == IF value.cross_msgs.cross_msgs = None THEN << >>
                ELSE value.cross_msgs.cross_msgs[1] IN
    /\ ~value.cross_msgs.fee.neg
    /\ Less(value.cross_msgs.fee.mag, TwoTo256)
    /\ \A i \in 1..Len(msgs) : OtherFieldsConvert(msgs[i].msg)
    /\ \A i \in 1..Len(value.children) :
         /\ IsOk(SubnetIDToEvm(value.children[i].source))
         /\ \A j \in 1..Len(value.children[i].checks) :
              Len(value.children[i].checks[j]) <= HashLen
    /\ IsOk(SubnetIDToEvm(value.source))
    /\ value.prev_check # None => Len(value.prev_check[1]) = HashLen

\* C12: checkpoint round trip.  For every native checkpoint of the
\* documented domain, converting it to the contract's BottomUpCheckpoint
\* and back succeeds and yields the same epoch, the same source subnet,
\* exactly the same fee and the same children (up to the truncation of
\* the check hashes to 32 bytes).
C12_CheckpointRoundTrip ==
    (conv.kind = "NativeBottomUpCheckpoint" /\ conv.stage # "input"
       /\ InDomain(conv.input)) =>
      LET value == conv.input IN
      /\ IsOk(conv.fwd)
      /\ conv.stage = "back" =>
           /\ IsOk(conv.back)
           /\ conv.back.value[1].epoch = value.epoch
           /\ conv.back.value[1].source = value.source
           /\ conv.back.value[1].cross_msgs.fee = value.cross_msgs.fee
           /\ Len(conv.back.value[1].children) = Len(value.children)
           /\ \A i \in 1..Len(value.children) :
                LET from == value.children[i]
                    to   == conv.back.value[1].children[i] IN
                /\ to.source = from.source
                /\ Len(to.checks) = Len(from.checks)
                /\ \A j \in 1..Len(from.checks) :
                     to.checks[j] = SubSeq(from.checks[j], 1, HashLen)

\* C21: every query of the manager leaves the manager, both chains and
\* the submissions in flight as they are and invokes no primitive of
\* submit_checkpoint; validators() and last_executed_epoch() return what
\* the parent handler answers for the child subnet's identity,
\* current_epoch() returns what the child handler answers, target_subnet()
\* and parent_subnet() return the parent configuration and child_subnet()
\* returns the child configuration.
C21_QueryRouting ==
    [][query' # query =>
         LET q == query' IN
         /\ UNCHANGED << mgr, periodLog, chainPeriod, committed, votes, calls,
                         templates >>
         /\ \A i \in 1..Len(q.invoked) :
              \A j \in 1..Len(Steps) : q.invoked[i].op # Steps[j]
         /\ q.op \in {"target_subnet", "parent_subnet"} =>
              q.invoked = << >> /\ q.result = ParentSubnet
         /\ q.op = "child_subnet" =>
              q.invoked = << >> /\ q.result = ChildSubnet
         /\ q.op \in {"validators", "last_executed_epoch"} =>
              /\ Len(q.invoked) = 1
              /\ q.invoked[1].op = q.op
              /\ q.invoked[1].handler = "parent"
              /\ q.invoked[1].subnet = ChildSubnet
              /\ q.result = q.invoked[1].result
              /\ q.result.cause # "NotFoundError"
              /\ q.result.ok =>
                   q.result.value[1] =
                     IF q.op = "validators" THEN Validators
                     ELSE CHOOSE m \in committed : \A d \in committed : d <= m
         /\ q.op = "current_epoch" =>
              /\ Len(q.invoked) = 1
              /\ q.invoked[1].op = q.op
              /\ q.invoked[1].handler = "child"
              /\ q.result = q.invoked[1].result
              /\ q.result.ok => q.result.value[1] \in Epochs
    ]_vars

\* The last executed epoch was asked for, after a commit on the parent
\* chain, while a submission stood before populate_prev_hash.
C21_Witness ==
    /\ query.op = "last_executed_epoch"
    /\ query.result.ok
    /\ query.result.value[1] > 0
    /\ query.invoked[1].subnet = mgr.child
    /\ calls[1].pc = "populate_prev_hash"

\* C22: a checkpoint of the gateway actor that converts yields a previous
\* hash of 32 zero bytes and an empty proof whatever previous checkpoint
\* and proof it carries, with source, epoch, fee, cross messages and
\* children converted from its data; it converts exactly when its source,
\* its fee, every cross message and every child check convert, and when it
\* does not, no checkpoint value is returned.
C22_GatewayCheckpoint ==
    (conv.kind = "GatewayBottomUpCheckpoint" /\ conv.stage # "input") =>
      LET d        == conv.input.data
          msgs     == IF d.cross_msgs.cross_msgs = None THEN << >>
                      ELSE d.cross_msgs.cross_msgs[1]
          elements == (\A i \in 1..Len(msgs) : IsOk(CrossMsgToEvm(msgs[i])))
                        /\ \A j \in 1..Len(d.children) :
                             IsOk(GatewayChildCheckToEvm(d.children[j]))
      IN  /\ ~elements => ~IsOk(conv.fwd) /\ conv.fwd.value = << >>
          /\ IsOk(conv.fwd) <=>
               /\ elements
               /\ IsOk(SubnetIDToEvm(d.source))
               /\ IsOk(fil_to_eth_amount(d.cross_msgs.fee))
          /\ IsOk(conv.fwd) =>
               LET b == conv.fwd.value[1] IN
               /\ b.prev_hash = ZeroHash
               /\ b.proof = << >>
               /\ b.source = SubnetIDToEvm(d.source).value[1]
               /\ b.epoch = EpochAsU64(d.epoch)
               /\ b.fee = fil_to_eth_amount(d.cross_msgs.fee).value[1]
               /\ Len(b.cross_msgs) = Len(msgs)
               /\ \A i \in 1..Len(msgs) :
                    b.cross_msgs[i] = CrossMsgToEvm(msgs[i]).value[1]
               /\ Len(b.children) = Len(d.children)
               /\ \A j \in 1..Len(d.children) :
                    /\ b.children[j].source =
                         SubnetIDToEvm(d.children[j].source).value[1]
                    /\ Len(b.children[j].checks) = Len(d.children[j].checks)
                    /\ \A k \in 1..Len(d.children[j].checks) :
                         b.children[j].checks[k] =
                           SubSeq(CidToBytes(d.children[j].checks[k]), 1, HashLen)

\* A gateway checkpoint with a proof, two cross messages and two child
\* checks was converted.
C22_Witness ==
    /\ conv.kind = "GatewayBottomUpCheckpoint"
    /\ conv.stage = "fwd"
    /\ IsOk(conv.fwd)
    /\ conv.input.data.proof # << >>
    /\ conv.input.sig # << >>
    /\ Len(conv.fwd.value[1].cross_msgs) = 2
    /\ Len(conv.fwd.value[1].children) = 2
    /\ conv.fwd.value[1].proof = << >>
    /\ conv.fwd.value[1].prev_hash = ZeroHash

====
